---- MODULE Spec2Model ----
(***************************************************************************)
(* sci_fi_food: adjective + noun name generator (src/src/lib.rs).          *)
(*                                                                         *)
(* The model covers the xorshift PRNG (TinyRng), the pair selector, the    *)
(* Title-Case formatter, seedable NameGenerator instances and the          *)
(* thread-local GLOBAL_RNG behind the random_* free functions.             *)
(*                                                                         *)
(* A u64 is the tuple of its eight bytes, least significant first, so     *)
(* that no value exceeds TLC's integer range and every shift, xor        *)
(* and wrapping multiplication keeps its 64-bit width.                     *)
(* A string is the sequence of its characters' Unicode code points.        *)
(***************************************************************************)
EXTENDS Naturals, Sequences, FiniteSets

\* ------------------------------------------------------------------------
\* u64 arithmetic
\* ------------------------------------------------------------------------

Pow2(n) == 2^n

\* The u64 written in hexadecimal as the bytes b7 (most significant) .. b0.
U64Hex(b7, b6, b5, b4, b3, b2, b1, b0) == <<b0, b1, b2, b3, b4, b5, b6, b7>>

\* A small number as a u64 (usize as u64).
U64Small(n) == <<n % 256, n \div 256, 0, 0, 0, 0, 0, 0>>

ZERO == U64Small(0)

\* Bit b of byte x, where w = 2^b.
BitOf(x, w) == (x \div w) % 2

\* One bit of x ^ y, at weight w.
XorBit(x, y, w) == w * ((BitOf(x, w) + BitOf(y, w)) % 2)

\* x ^ y on bytes
XorByte(x, y) ==
  XorBit(x, y, 1) + XorBit(x, y, 2) + XorBit(x, y, 4) + XorBit(x, y, 8)
  + XorBit(x, y, 16) + XorBit(x, y, 32) + XorBit(x, y, 64) + XorBit(x, y, 128)

\* a ^ b
Xor(a, b) ==
  <<XorByte(a[1], b[1]), XorByte(a[2], b[2]), XorByte(a[3], b[3]),
    XorByte(a[4], b[4]), XorByte(a[5], b[5]), XorByte(a[6], b[6]),
    XorByte(a[7], b[7]), XorByte(a[8], b[8])>>

\* Byte k (0 = least significant) of a >> n, 0 <= n < 64.
ShrByte(a, n, k) ==
  LET q == n \div 8
      r == n % 8
  IN  (IF k + q <= 7 THEN a[k + q + 1] \div Pow2(r) ELSE 0)
      + (IF k + q + 1 <= 7 THEN (a[k + q + 2] % Pow2(r)) * Pow2(8 - r) ELSE 0)

\* a >> n  (logical shift)
Shr(a, n) ==
  <<ShrByte(a, n, 0), ShrByte(a, n, 1), ShrByte(a, n, 2), ShrByte(a, n, 3),
    ShrByte(a, n, 4), ShrByte(a, n, 5), ShrByte(a, n, 6), ShrByte(a, n, 7)>>

\* Byte k of a << n, 0 <= n < 64: the bits shifted past bit 63 are dropped.
ShlByte(a, n, k) ==
  LET q == n \div 8
      r == n % 8
  IN  (IF k >= q THEN ((a[k - q + 1] * Pow2(r)) % 256) ELSE 0)
      + (IF k >= q + 1 THEN a[k - q] \div Pow2(8 - r) ELSE 0)

\* a << n
Shl(a, n) ==
  <<ShlByte(a, n, 0), ShlByte(a, n, 1), ShlByte(a, n, 2), ShlByte(a, n, 3),
    ShlByte(a, n, 4), ShlByte(a, n, 5), ShlByte(a, n, 6), ShlByte(a, n, 7)>>

\* a.rotate_left(n), 0 < n < 64: the two shifts have no bit in common.
RotateLeft(a, n) == Xor(Shl(a, n), Shr(a, 64 - n))

\* Sum of the byte products A[i]*B[j-i], i = from..j: column j of the
\* schoolbook product.
RECURSIVE MulColumn(_, _, _, _)
MulColumn(a, b, j, from) ==
  IF from > j THEN 0
  ELSE a[from + 1] * b[j - from + 1] + MulColumn(a, b, j, from + 1)

\* Bytes j..7 of the product, given the carry into column j; the carry out
\* of column 7 is dropped (wrapping).
RECURSIVE MulFrom(_, _, _, _)
MulFrom(a, b, j, carry) ==
  IF j > 7 THEN <<>>
  ELSE LET s == MulColumn(a, b, j, 0) + carry
       IN  <<s % 256>> \o MulFrom(a, b, j + 1, s \div 256)

\* a.wrapping_mul(b)
WrappingMul(a, b) == MulFrom(a, b, 0, 0)

RECURSIVE AddFrom(_, _, _, _)
AddFrom(a, b, j, carry) ==
  IF j > 7 THEN <<>>
  ELSE LET s == a[j + 1] + b[j + 1] + carry
       IN  <<s % 256>> \o AddFrom(a, b, j + 1, s \div 256)

\* a.wrapping_add(b): what AtomicU64::fetch_add stores
WrappingAdd(a, b) == AddFrom(a, b, 0, 0)

\* (256^(k+1) * r + bytes k..0 of a) mod m, for 0 < m < 2^22.
RECURSIVE RemFrom(_, _, _, _)
RemFrom(a, m, k, r) ==
  LET r2 == (256 * r + a[k + 1]) % m
  IN  IF k = 0 THEN r2 ELSE RemFrom(a, m, k - 1, r2)

\* a % m on u64, m a small number: Rust's % panics on a zero divisor.
Rem(a, m) ==
  IF m = 0 THEN [panic |-> TRUE, value |-> 0]
  ELSE [panic |-> FALSE, value |-> RemFrom(a, m, 7, 0)]

\* ------------------------------------------------------------------------
\* TinyRng
\* ------------------------------------------------------------------------

\* 0x4d595df4d0f33173, the state a zero seed is remapped to
REMAP_SEED == U64Hex(\H4D, \H59, \H5D, \HF4, \HD0, \HF3, \H31, \H73)

\* 0x2545F4914F6CDD1D, the output multiplier
MULTIPLIER == U64Hex(\H25, \H45, \HF4, \H91, \H4F, \H6C, \HDD, \H1D)

\* 0x9E37, the increment of ENTROPY_COUNTER
ENTROPY_STEP == U64Hex(0, 0, 0, 0, 0, 0, \H9E, \H37)

\* AtomicU64::new(1)
ENTROPY_COUNTER_INIT == U64Small(1)

\* TinyRng::from_seed: the state of the new TinyRng.
FromSeedNoRemap(seed) == seed

TinyRng_from_seed(seed) == IF seed = ZERO THEN REMAP_SEED ELSE seed

\* TinyRng::seed_from_entropy, given the clock reading (0 when the clock is
\* before the epoch) and the value fetch_add returned.
TinyRng_seed_from_entropy(time, extra) ==
  TinyRng_from_seed(Xor(Xor(time, extra), RotateLeft(extra, 32)))

\* x ^= x >> n
XorShr(x, n) == Xor(x, Shr(x, n))

\* x ^= x << n
XorShl(x, n) == Xor(x, Shl(x, n))

\* self.state = x; x.wrapping_mul(0x2545F4914F6CDD1D)
StoreAndScramble(x) == [state |-> x, value |-> WrappingMul(x, MULTIPLIER)]

\* TinyRng::next_u64: the new state and the value returned.
TinyRng_next_u64(state) ==
  StoreAndScramble(XorShr(XorShl(XorShr(state, 12), 25), 27))

\* (d.value % bound) as usize, d what next_u64 gave: the state, the index
\* and whether the % panicked.
Reduced(d, r) == [state |-> d.state, value |-> r.value, panic |-> r.panic]

ReduceModulo(d, bound) == Reduced(d, Rem(d.value, bound))

\* TinyRng::index: the new state, the index returned, and whether the call
\* panicked.
IndexNoZeroGuard(state, upper) == ReduceModulo(TinyRng_next_u64(state), upper)

IndexNoModulo(state, upper) ==
  IF upper = 0 THEN [state |-> state, value |-> 0, panic |-> FALSE]
  ELSE Reduced(TinyRng_next_u64(state), Rem(TinyRng_next_u64(state).value, 65536))

TinyRng_index(state, upper) ==
  IF upper = 0 THEN [state |-> state, value |-> 0, panic |-> FALSE]
  ELSE ReduceModulo(TinyRng_next_u64(state), upper)

\* ------------------------------------------------------------------------
\* Word catalog
\* ------------------------------------------------------------------------

\* const ADJECTIVES (318 words, in source order; each word is the
\* sequence of its characters' code points).
ADJECTIVES ==
 <<
  <<97,99,105,100,105,99>>,  \* "acidic"
  <<97,103,101,100>>,  \* "aged"
  <<97,103,105,108,101>>,  \* "agile"
  <<97,103,114,101,101,97,98,108,101>>,  \* "agreeable"
  <<97,105,114,121>>,  \* "airy"
  <<97,109,98,101,114>>,  \* "amber"
  <<97,110,99,105,101,110,116>>,  \* "ancient"
  <<97,110,103,114,121>>,  \* "angry"
  <<97,110,105,109,97,116,101,100>>,  \* "animated"
  <<97,110,120,105,111,117,115>>,  \* "anxious"
  <<97,113,117,97>>,  \* "aqua"
  <<97,113,117,97,109,97,114,105,110,101>>,  \* "aquamarine"
  <<97,114,99,116,105,99>>,  \* "arctic"
  <<97,114,111,109,97,116,105,99>>,  \* "aromatic"
  <<97,116,111,109,105,99>>,  \* "atomic"
  <<97,117,116,117,109,110>>,  \* "autumn"
  <<97,122,117,114,101>>,  \* "azure"
  <<98,97,108,97,110,99,101,100>>,  \* "balanced"
  <<98,97,108,109,121>>,  \* "balmy"
  <<98,97,115,104,102,117,108>>,  \* "bashful"
  <<98,101,105,103,101>>,  \* "beige"
  <<98,108,97,99,107>>,  \* "black"
  <<98,108,97,122,105,110,103>>,  \* "blazing"
  <<98,108,105,115,115,102,117,108>>,  \* "blissful"
  <<98,108,117,101>>,  \* "blue"
  <<98,111,108,100>>,  \* "bold"
  <<98,111,117,110,99,121>>,  \* "bouncy"
  <<98,114,101,101,122,121>>,  \* "breezy"
  <<98,114,105,103,104,116>>,  \* "bright"
  <<98,114,105,108,108,105,97,110,116>>,  \* "brilliant"
  <<98,114,105,115,107>>,  \* "brisk"
  <<98,114,105,116,116,108,101>>,  \* "brittle"
  <<98,114,111,110,122,101>>,  \* "bronze"
  <<98,114,111,119,110>>,  \* "brown"
  <<98,117,98,98,108,105,110,103>>,  \* "bubbling"
  <<98,117,98,98,108,121>>,  \* "bubbly"
  <<98,117,111,121,97,110,116>>,  \* "buoyant"
  <<98,117,116,116,101,114,121>>,  \* "buttery"
  <<98,117,122,122,121>>,  \* "buzzy"
  <<99,97,108,109>>,  \* "calm"
  <<99,97,110,100,105,100>>,  \* "candid"
  <<99,97,114,97,109,101,108>>,  \* "caramel"
  <<99,101,108,101,115,116,105,97,108>>,  \* "celestial"
  <<99,104,101,101,114,102,117,108>>,  \* "cheerful"
  <<99,104,101,101,114,121>>,  \* "cheery"
  <<99,104,101,119,121>>,  \* "chewy"
  <<99,104,105,108,108,121>>,  \* "chilly"
  <<99,104,114,111,109,101>>,  \* "chrome"
  <<99,105,116,114,117,115>>,  \* "citrus"
  <<99,105,116,114,117,115,121>>,  \* "citrusy"
  <<99,108,101,97,110>>,  \* "clean"
  <<99,108,101,97,114>>,  \* "clear"
  <<99,108,101,118,101,114>>,  \* "clever"
  <<99,108,111,117,100,108,101,115,115>>,  \* "cloudless"
  <<99,108,111,117,100,121>>,  \* "cloudy"
  <<99,111,98,97,108,116>>,  \* "cobalt"
  <<99,111,108,100>>,  \* "cold"
  <<99,111,108,111,114,102,117,108>>,  \* "colorful"
  <<99,111,109,112,97,99,116>>,  \* "compact"
  <<99,111,110,116,101,110,116>>,  \* "content"
  <<99,111,111,107,101,100>>,  \* "cooked"
  <<99,111,111,108>>,  \* "cool"
  <<99,111,112,112,101,114>>,  \* "copper"
  <<99,111,114,97,108>>,  \* "coral"
  <<99,114,97,110,107,121>>,  \* "cranky"
  <<99,114,101,97,109>>,  \* "cream"
  <<99,114,101,97,109,121>>,  \* "creamy"
  <<99,114,105,109,115,111,110>>,  \* "crimson"
  <<99,114,105,115,112>>,  \* "crisp"
  <<99,114,117,109,98,108,121>>,  \* "crumbly"
  <<99,114,117,110,99,104,121>>,  \* "crunchy"
  <<99,114,117,115,116,121>>,  \* "crusty"
  <<99,114,121,115,116,97,108>>,  \* "crystal"
  <<99,117,114,105,111,117,115>>,  \* "curious"
  <<99,117,114,118,121>>,  \* "curvy"
  <<100,97,114,105,110,103>>,  \* "daring"
  <<100,97,115,104,105,110,103>>,  \* "dashing"
  <<100,97,122,122,108,105,110,103>>,  \* "dazzling"
  <<100,101,102,116>>,  \* "deft"
  <<100,101,110,115,101>>,  \* "dense"
  <<100,101,119>>,  \* "dew"
  <<100,105,109>>,  \* "dim"
  <<100,111,119,110,121>>,  \* "downy"
  <<100,114,101,97,109,121>>,  \* "dreamy"
  <<100,114,111,111,112,121>>,  \* "droopy"
  <<100,114,121>>,  \* "dry"
  <<100,117,115,107,121>>,  \* "dusky"
  <<100,117,115,116,121>>,  \* "dusty"
  <<100,121,110,97,109,105,99>>,  \* "dynamic"
  <<101,97,103,101,114>>,  \* "eager"
  <<101,97,114,116,104,121>>,  \* "earthy"
  <<101,98,111,110,121>>,  \* "ebony"
  <<101,108,101,99,116,114,105,99>>,  \* "electric"
  <<101,109,101,114,97,108,100>>,  \* "emerald"
  <<101,110,101,114,103,101,116,105,99>>,  \* "energetic"
  <<101,120,99,105,116,101,100>>,  \* "excited"
  <<101,120,117,98,101,114,97,110,116>>,  \* "exuberant"
  <<102,101,97,114,108,101,115,115>>,  \* "fearless"
  <<102,101,97,116,104,101,114,121>>,  \* "feathery"
  <<102,105,101,114,99,101>>,  \* "fierce"
  <<102,105,101,114,121>>,  \* "fiery"
  <<102,108,97,107,121>>,  \* "flaky"
  <<102,108,97,118,111,114,102,117,108>>,  \* "flavorful"
  <<102,108,101,101,116>>,  \* "fleet"
  <<102,108,117,102,102,121>>,  \* "fluffy"
  <<102,111,103,103,121>>,  \* "foggy"
  <<102,114,97,103,114,97,110,116>>,  \* "fragrant"
  <<102,114,101,115,104>>,  \* "fresh"
  <<102,114,105,101,110,100,108,121>>,  \* "friendly"
  <<102,114,111,115,116,121>>,  \* "frosty"
  <<103,101,110,116,108,101>>,  \* "gentle"
  <<103,105,97,110,116>>,  \* "giant"
  <<103,105,108,100,101,100>>,  \* "gilded"
  <<103,108,101,97,109,105,110,103>>,  \* "gleaming"
  <<103,108,101,101,102,117,108>>,  \* "gleeful"
  <<103,108,105,109,109,101,114,105,110,103>>,  \* "glimmering"
  <<103,108,105,110,116,105,110,103>>,  \* "glinting"
  <<103,108,105,116,116,101,114,105,110,103>>,  \* "glittering"
  <<103,108,111,115,115,121>>,  \* "glossy"
  <<103,108,111,119,105,110,103>>,  \* "glowing"
  <<103,108,117,109>>,  \* "glum"
  <<103,111,108,100>>,  \* "gold"
  <<103,111,108,100,101,110>>,  \* "golden"
  <<103,111,111,101,121>>,  \* "gooey"
  <<103,114,97,110,100>>,  \* "grand"
  <<103,114,97,116,101,102,117,108>>,  \* "grateful"
  <<103,114,97,121>>,  \* "gray"
  <<103,114,101,101,110>>,  \* "green"
  <<103,114,105,116,116,121>>,  \* "gritty"
  <<103,114,117,109,112,121>>,  \* "grumpy"
  <<103,117,105,108,116,121>>,  \* "guilty"
  <<104,97,112,112,121>>,  \* "happy"
  <<104,97,122,101,108>>,  \* "hazel"
  <<104,101,97,118,121>>,  \* "heavy"
  <<104,101,114,111,105,99>>,  \* "heroic"
  <<104,111,110,101,121,101,100>>,  \* "honeyed"
  <<104,111,112,101,102,117,108>>,  \* "hopeful"
  <<104,111,116>>,  \* "hot"
  <<104,117,103,101>>,  \* "huge"
  <<104,117,109,109,105,110,103>>,  \* "humming"
  <<105,99,121>>,  \* "icy"
  <<105,109,109,101,100,105,97,116,101>>,  \* "immediate"
  <<105,110,100,105,103,111>>,  \* "indigo"
  <<105,110,116,114,101,112,105,100>>,  \* "intrepid"
  <<105,118,111,114,121>>,  \* "ivory"
  <<106,97,122,122,121>>,  \* "jazzy"
  <<106,105,116,116,101,114,121>>,  \* "jittery"
  <<106,111,118,105,97,108>>,  \* "jovial"
  <<106,111,121,102,117,108>>,  \* "joyful"
  <<106,117,105,99,121>>,  \* "juicy"
  <<107,101,101,110>>,  \* "keen"
  <<107,105,110,100,108,121>>,  \* "kindly"
  <<108,97,118,101,110,100,101,114>>,  \* "lavender"
  <<108,101,109,111,110>>,  \* "lemon"
  <<108,105,103,104,116>>,  \* "light"
  <<108,105,109,101>>,  \* "lime"
  <<108,105,116,104,101>>,  \* "lithe"
  <<108,105,116,116,108,101>>,  \* "little"
  <<108,105,118,101,108,121>>,  \* "lively"
  <<108,111,110,101,108,121>>,  \* "lonely"
  <<108,117,99,105,100>>,  \* "lucid"
  <<108,117,107,101,119,97,114,109>>,  \* "lukewarm"
  <<108,117,109,105,110,111,117,115>>,  \* "luminous"
  <<108,117,115,116,114,111,117,115>>,  \* "lustrous"
  <<109,97,103,101,110,116,97>>,  \* "magenta"
  <<109,97,103,110,101,116,105,99>>,  \* "magnetic"
  <<109,97,114,111,111,110>>,  \* "maroon"
  <<109,97,115,115,105,118,101>>,  \* "massive"
  <<109,101,108,97,110,99,104,111,108,121>>,  \* "melancholy"
  <<109,101,108,108,111,119>>,  \* "mellow"
  <<109,101,114,114,121>>,  \* "merry"
  <<109,105,103,104,116,121>>,  \* "mighty"
  <<109,105,108,107,121>>,  \* "milky"
  <<109,105,115,116,121>>,  \* "misty"
  <<109,111,108,100,121>>,  \* "moldy"
  <<109,111,111,100,121>>,  \* "moody"
  <<109,117,115,104,121>>,  \* "mushy"
  <<110,97,118,121>>,  \* "navy"
  <<110,101,114,118,111,117,115>>,  \* "nervous"
  <<110,101,119>>,  \* "new"
  <<110,105,109,98,108,101>>,  \* "nimble"
  <<110,111,98,108,101>>,  \* "noble"
  <<110,111,105,115,121>>,  \* "noisy"
  <<111,99,104,114,101>>,  \* "ochre"
  <<111,108,100>>,  \* "old"
  <<111,108,105,118,101>>,  \* "olive"
  <<111,111,122,121>>,  \* "oozy"
  <<111,112,116,105,109,105,115,116,105,99>>,  \* "optimistic"
  <<111,114,97,110,103,101>>,  \* "orange"
  <<112,101,97,99,101,102,117,108>>,  \* "peaceful"
  <<112,101,97,114,108>>,  \* "pearl"
  <<112,101,112,112,101,114,121>>,  \* "peppery"
  <<112,101,112,112,121>>,  \* "peppy"
  <<112,101,114,102,117,109,101,100>>,  \* "perfumed"
  <<112,101,114,107,121>>,  \* "perky"
  <<112,101,116,105,116,101>>,  \* "petite"
  <<112,105,110,107>>,  \* "pink"
  <<112,108,97,121,102,117,108>>,  \* "playful"
  <<112,108,101,97,115,101,100>>,  \* "pleased"
  <<112,108,117,99,107,121>>,  \* "plucky"
  <<112,108,117,109>>,  \* "plum"
  <<112,111,108,97,114>>,  \* "polar"
  <<112,111,108,105,115,104,101,100>>,  \* "polished"
  <<112,114,105,109,97,108>>,  \* "primal"
  <<112,114,105,115,109>>,  \* "prism"
  <<112,114,105,115,116,105,110,101>>,  \* "pristine"
  <<112,114,111,117,100>>,  \* "proud"
  <<112,117,110,103,101,110,116>>,  \* "pungent"
  <<112,117,114,101>>,  \* "pure"
  <<112,117,114,112,108,101>>,  \* "purple"
  <<113,117,105,99,107>>,  \* "quick"
  <<113,117,105,101,116>>,  \* "quiet"
  <<114,97,100,105,97,110,116>>,  \* "radiant"
  <<114,97,105,110,121>>,  \* "rainy"
  <<114,97,112,105,100>>,  \* "rapid"
  <<114,97,119>>,  \* "raw"
  <<114,101,100>>,  \* "red"
  <<114,101,115,116,108,101,115,115>>,  \* "restless"
  <<114,105,112,101>>,  \* "ripe"
  <<114,111,97,114,105,110,103>>,  \* "roaring"
  <<114,111,115,121>>,  \* "rosy"
  <<114,111,117,110,100>>,  \* "round"
  <<114,117,98,121>>,  \* "ruby"
  <<114,117,115,116,108,105,110,103>>,  \* "rustling"
  <<114,117,115,116,121>>,  \* "rusty"
  <<115,97,100>>,  \* "sad"
  <<115,97,102,102,114,111,110>>,  \* "saffron"
  <<115,97,108,116,121>>,  \* "salty"
  <<115,97,110,100,121>>,  \* "sandy"
  <<115,97,118,111,114,121>>,  \* "savory"
  <<115,99,97,108,100,105,110,103>>,  \* "scalding"
  <<115,99,97,114,108,101,116>>,  \* "scarlet"
  <<115,101,112,105,97>>,  \* "sepia"
  <<115,101,114,101,110,101>>,  \* "serene"
  <<115,104,97,100,111,119,121>>,  \* "shadowy"
  <<115,104,105,109,109,101,114,105,110,103>>,  \* "shimmering"
  <<115,104,105,110,121>>,  \* "shiny"
  <<115,104,121>>,  \* "shy"
  <<115,105,108,101,110,116>>,  \* "silent"
  <<115,105,108,107,101,110>>,  \* "silken"
  <<115,105,108,107,121>>,  \* "silky"
  <<115,105,108,108,121>>,  \* "silly"
  <<115,105,108,118,101,114>>,  \* "silver"
  <<115,105,110,99,101,114,101>>,  \* "sincere"
  <<115,108,101,101,107>>,  \* "sleek"
  <<115,108,101,101,112,121>>,  \* "sleepy"
  <<115,108,101,110,100,101,114>>,  \* "slender"
  <<115,108,105,112,112,101,114,121>>,  \* "slippery"
  <<115,109,97,108,108>>,  \* "small"
  <<115,109,101,108,108,121>>,  \* "smelly"
  <<115,109,111,107,121>>,  \* "smoky"
  <<115,109,111,111,116,104>>,  \* "smooth"
  <<115,109,117,103>>,  \* "smug"
  <<115,110,97,112,112,121>>,  \* "snappy"
  <<115,110,111,119,121>>,  \* "snowy"
  <<115,111,103,103,121>>,  \* "soggy"
  <<115,111,108,97,114>>,  \* "solar"
  <<115,111,108,105,100>>,  \* "solid"
  <<115,111,111,116,104,105,110,103>>,  \* "soothing"
  <<115,112,97,114,107,108,105,110,103>>,  \* "sparkling"
  <<115,112,97,114,107,108,121>>,  \* "sparkly"
  <<115,112,101,101,100,121>>,  \* "speedy"
  <<115,112,105,99,101,100>>,  \* "spiced"
  <<115,112,105,99,121>>,  \* "spicy"
  <<115,112,105,114,105,116,101,100>>,  \* "spirited"
  <<115,112,114,105,103,104,116,108,121>>,  \* "sprightly"
  <<115,112,114,105,110,116,105,110,103>>,  \* "sprinting"
  <<115,112,114,121>>,  \* "spry"
  <<115,113,117,97,114,101>>,  \* "square"
  <<115,116,97,108,101>>,  \* "stale"
  <<115,116,101,97,100,102,97,115,116>>,  \* "steadfast"
  <<115,116,101,97,109,121>>,  \* "steamy"
  <<115,116,101,108,108,97,114>>,  \* "stellar"
  <<115,116,105,99,107,121>>,  \* "sticky"
  <<115,116,105,110,107,121>>,  \* "stinky"
  <<115,116,111,114,109,121>>,  \* "stormy"
  <<115,117,99,99,117,108,101,110,116>>,  \* "succulent"
  <<115,117,110,108,105,116>>,  \* "sunlit"
  <<115,117,110,110,121>>,  \* "sunny"
  <<115,119,101,101,116>>,  \* "sweet"
  <<115,119,101,108,116,101,114,105,110,103>>,  \* "sweltering"
  <<115,119,105,102,116>>,  \* "swift"
  <<115,121,114,117,112,121>>,  \* "syrupy"
  <<116,97,110,103,121>>,  \* "tangy"
  <<116,97,114,116>>,  \* "tart"
  <<116,101,97,108>>,  \* "teal"
  <<116,101,101,110,121>>,  \* "teeny"
  <<116,101,110,100,101,114>>,  \* "tender"
  <<116,101,110,115,101>>,  \* "tense"
  <<116,104,111,117,103,104,116,102,117,108>>,  \* "thoughtful"
  <<116,104,117,110,100,101,114,105,110,103>>,  \* "thundering"
  <<116,105,100,121>>,  \* "tidy"
  <<116,105,110,121>>,  \* "tiny"
  <<116,111,97,115,116,121>>,  \* "toasty"
  <<116,114,111,112,105,99,97,108>>,  \* "tropical"
  <<116,117,114,113,117,111,105,115,101>>,  \* "turquoise"
  <<116,119,105,110,107,108,105,110,103>>,  \* "twinkling"
  <<117,112,98,101,97,116>>,  \* "upbeat"
  <<117,112,115,101,116>>,  \* "upset"
  <<118,97,115,116>>,  \* "vast"
  <<118,105,98,114,97,110,116>>,  \* "vibrant"
  <<118,105,111,108,101,116>>,  \* "violet"
  <<118,105,118,105,100>>,  \* "vivid"
  <<119,97,114,109>>,  \* "warm"
  <<119,104,105,109,115,105,99,97,108>>,  \* "whimsical"
  <<119,104,105,114,114,105,110,103>>,  \* "whirring"
  <<119,104,105,116,101>>,  \* "white"
  <<119,105,100,101>>,  \* "wide"
  <<119,105,108,100>>,  \* "wild"
  <<119,105,110,116,114,121>>,  \* "wintry"
  <<119,105,115,116,102,117,108>>,  \* "wistful"
  <<119,105,116,116,121>>,  \* "witty"
  <<119,111,114,114,105,101,100>>,  \* "worried"
  <<119,114,105,110,107,108,121>>,  \* "wrinkly"
  <<121,101,108,108,111,119>>,  \* "yellow"
  <<122,101,97,108,111,117,115>>,  \* "zealous"
  <<122,101,115,116,121>>,  \* "zesty"
  <<122,105,112,112,121>>  \* "zippy"
 >>

\* FOOD_WORDS.nouns (237 words, in source order; each word is the
\* sequence of its characters' code points).
FOOD_NOUNS ==
 <<
  <<97,99,97,105>>,  \* "acai"
  <<97,108,109,111,110,100>>,  \* "almond"
  <<97,109,98,101,114,106,97,99,107>>,  \* "amberjack"
  <<97,110,99,104,111,118,121>>,  \* "anchovy"
  <<97,112,112,108,101>>,  \* "apple"
  <<97,112,114,105,99,111,116>>,  \* "apricot"
  <<97,114,116,105,99,104,111,107,101>>,  \* "artichoke"
  <<97,114,117,103,117,108,97>>,  \* "arugula"
  <<97,115,112,97,114,97,103,117,115>>,  \* "asparagus"
  <<97,118,111,99,97,100,111>>,  \* "avocado"
  <<98,97,99,111,110>>,  \* "bacon"
  <<98,97,103,101,108>>,  \* "bagel"
  <<98,97,110,97,110,97>>,  \* "banana"
  <<98,97,114,114,97,99,117,100,97>>,  \* "barracuda"
  <<98,97,115,105,108>>,  \* "basil"
  <<98,97,115,115>>,  \* "bass"
  <<98,101,101,102>>,  \* "beef"
  <<98,101,101,116>>,  \* "beet"
  <<98,105,108,98,101,114,114,121>>,  \* "bilberry"
  <<98,105,115,99,117,105,116>>,  \* "biscuit"
  <<98,108,97,99,107,32,99,111,100>>,  \* "black cod"
  <<98,108,97,99,107,98,101,114,114,121>>,  \* "blackberry"
  <<98,108,97,99,107,99,117,114,114,97,110,116>>,  \* "blackcurrant"
  <<98,108,117,101,98,101,114,114,121>>,  \* "blueberry"
  <<98,108,117,101,102,105,110>>,  \* "bluefin"
  <<98,111,110,105,116,111>>,  \* "bonito"
  <<98,111,121,115,101,110,98,101,114,114,121>>,  \* "boysenberry"
  <<98,114,101,97,100>>,  \* "bread"
  <<98,114,101,97,100,102,114,117,105,116>>,  \* "breadfruit"
  <<98,114,105,115,107,101,116>>,  \* "brisket"
  <<98,114,111,99,99,111,108,105>>,  \* "broccoli"
  <<98,114,111,99,99,111,108,105,110,105>>,  \* "broccolini"
  <<98,114,111,119,110,105,101>>,  \* "brownie"
  <<98,114,117,115,115,101,108,115>>,  \* "brussels"
  <<98,117,110>>,  \* "bun"
  <<98,117,116,116,101,114,102,105,115,104>>,  \* "butterfish"
  <<99,97,98,98,97,103,101>>,  \* "cabbage"
  <<99,97,107,101>>,  \* "cake"
  <<99,97,110,100,121>>,  \* "candy"
  <<99,97,110,116,97,108,111,117,112,101>>,  \* "cantaloupe"
  <<99,97,114,97,109,101,108>>,  \* "caramel"
  <<99,97,114,114,111,116>>,  \* "carrot"
  <<99,97,115,104,101,119>>,  \* "cashew"
  <<99,97,116,102,105,115,104>>,  \* "catfish"
  <<99,97,117,108,105,102,108,111,119,101,114>>,  \* "cauliflower"
  <<99,101,108,101,114,121>>,  \* "celery"
  <<99,101,114,101,97,108>>,  \* "cereal"
  <<99,104,97,114,100>>,  \* "chard"
  <<99,104,101,114,114,121>>,  \* "cherry"
  <<99,104,105,99,107,101,110>>,  \* "chicken"
  <<99,104,105,112,111,116,108,101>>,  \* "chipotle"
  <<99,104,117,114,114,111>>,  \* "churro"
  <<99,108,97,109,115>>,  \* "clams"
  <<99,108,101,109,101,110,116,105,110,101>>,  \* "clementine"
  <<99,108,111,117,100,98,101,114,114,121>>,  \* "cloudberry"
  <<99,111,99,111,110,117,116>>,  \* "coconut"
  <<99,111,100>>,  \* "cod"
  <<99,111,108,108,97,114,100>>,  \* "collard"
  <<99,111,111,107,105,101>>,  \* "cookie"
  <<99,111,117,115,99,111,117,115>>,  \* "couscous"
  <<99,114,97,110,98,101,114,114,121>>,  \* "cranberry"
  <<99,114,111,105,115,115,97,110,116>>,  \* "croissant"
  <<99,117,99,117,109,98,101,114>>,  \* "cucumber"
  <<99,117,114,114,97,110,116>>,  \* "currant"
  <<99,117,114,114,121>>,  \* "curry"
  <<99,117,116,116,108,101,102,105,115,104>>,  \* "cuttlefish"
  <<100,97,116,101>>,  \* "date"
  <<100,101,119,98,101,114,114,121>>,  \* "dewberry"
  <<100,111,117,103,104,110,117,116>>,  \* "doughnut"
  <<100,114,97,103,111,110,102,114,117,105,116>>,  \* "dragonfruit"
  <<100,117,99,107>>,  \* "duck"
  <<100,117,109,112,108,105,110,103>>,  \* "dumpling"
  <<100,117,114,105,97,110>>,  \* "durian"
  <<101,100,97,109,97,109,101>>,  \* "edamame"
  <<101,101,108>>,  \* "eel"
  <<101,103,103,112,108,97,110,116>>,  \* "eggplant"
  <<101,108,100,101,114,98,101,114,114,121>>,  \* "elderberry"
  <<102,97,108,97,102,101,108>>,  \* "falafel"
  <<102,101,105,106,111,97>>,  \* "feijoa"
  <<102,101,110,110,101,108>>,  \* "fennel"
  <<102,105,103>>,  \* "fig"
  <<102,105,110,103,101,114,108,105,109,101>>,  \* "fingerlime"
  <<102,108,111,117,110,100,101,114>>,  \* "flounder"
  <<102,111,110,100,117,101>>,  \* "fondue"
  <<103,97,114,108,105,99>>,  \* "garlic"
  <<103,105,110,103,101,114>>,  \* "ginger"
  <<103,111,106,105>>,  \* "goji"
  <<103,111,111,115,101,98,101,114,114,121>>,  \* "gooseberry"
  <<103,114,97,110,111,108,97>>,  \* "granola"
  <<103,114,97,112,101>>,  \* "grape"
  <<103,114,97,112,101,102,114,117,105,116>>,  \* "grapefruit"
  <<103,114,111,117,112,101,114>>,  \* "grouper"
  <<103,117,97,118,97>>,  \* "guava"
  <<104,97,108,105,98,117,116>>,  \* "halibut"
  <<104,97,109>>,  \* "ham"
  <<104,97,122,101,108,110,117,116>>,  \* "hazelnut"
  <<104,101,114,114,105,110,103>>,  \* "herring"
  <<104,111,110,101,121>>,  \* "honey"
  <<104,111,110,101,121,100,101,119>>,  \* "honeydew"
  <<104,117,99,107,108,101,98,101,114,114,121>>,  \* "huckleberry"
  <<106,97,99,107,102,114,117,105,116>>,  \* "jackfruit"
  <<106,101,108,108,121>>,  \* "jelly"
  <<106,117,106,117,98,101>>,  \* "jujube"
  <<107,97,108,101>>,  \* "kale"
  <<107,105,109,99,104,105>>,  \* "kimchi"
  <<107,105,110,103,102,105,115,104>>,  \* "kingfish"
  <<107,105,119,105>>,  \* "kiwi"
  <<107,105,119,105,102,114,117,105,116>>,  \* "kiwifruit"
  <<107,117,109,113,117,97,116>>,  \* "kumquat"
  <<108,97,109,98>>,  \* "lamb"
  <<108,97,115,97,103,110,97>>,  \* "lasagna"
  <<108,101,101,107>>,  \* "leek"
  <<108,101,109,111,110>>,  \* "lemon"
  <<108,101,110,116,105,108>>,  \* "lentil"
  <<108,101,116,116,117,99,101>>,  \* "lettuce"
  <<108,105,109,101>>,  \* "lime"
  <<108,105,110,103,111,110,98,101,114,114,121>>,  \* "lingonberry"
  <<108,111,98,115,116,101,114>>,  \* "lobster"
  <<108,111,110,103,97,110>>,  \* "longan"
  <<108,111,113,117,97,116>>,  \* "loquat"
  <<108,121,99,104,101,101>>,  \* "lychee"
  <<109,97,99,107,101,114,101,108>>,  \* "mackerel"
  <<109,97,104,105,32,109,97,104,105>>,  \* "mahi mahi"
  <<109,97,110,100,97,114,105,110>>,  \* "mandarin"
  <<109,97,110,103,111>>,  \* "mango"
  <<109,97,110,103,111,115,116,101,101,110>>,  \* "mangosteen"
  <<109,97,114,105,111,110,98,101,114,114,121>>,  \* "marionberry"
  <<109,97,114,108,105,110>>,  \* "marlin"
  <<109,97,114,115,104,109,97,108,108,111,119>>,  \* "marshmallow"
  <<109,105,114,97,99,108,101,98,101,114,114,121>>,  \* "miracleberry"
  <<109,105,115,111>>,  \* "miso"
  <<109,111,99,104,105>>,  \* "mochi"
  <<109,117,102,102,105,110>>,  \* "muffin"
  <<109,117,108,98,101,114,114,121>>,  \* "mulberry"
  <<109,117,115,115,101,108,115>>,  \* "mussels"
  <<109,117,116,116,111,110>>,  \* "mutton"
  <<110,101,99,116,97,114,105,110,101>>,  \* "nectarine"
  <<110,111,111,100,108,101>>,  \* "noodle"
  <<110,117,116,109,101,103>>,  \* "nutmeg"
  <<111,99,116,111,112,117,115>>,  \* "octopus"
  <<111,107,114,97>>,  \* "okra"
  <<111,108,105,118,101>>,  \* "olive"
  <<111,109,101,108,101,116>>,  \* "omelet"
  <<111,110,105,111,110>>,  \* "onion"
  <<111,114,97,110,103,101>>,  \* "orange"
  <<111,121,115,116,101,114>>,  \* "oyster"
  <<112,97,110,99,97,107,101>>,  \* "pancake"
  <<112,97,112,97,121,97>>,  \* "papaya"
  <<112,97,114,115,110,105,112>>,  \* "parsnip"
  <<112,97,115,115,105,111,110,102,114,117,105,116>>,  \* "passionfruit"
  <<112,97,115,116,97>>,  \* "pasta"
  <<112,101,97,99,104>>,  \* "peach"
  <<112,101,97,110,117,116>>,  \* "peanut"
  <<112,101,97,114>>,  \* "pear"
  <<112,101,112,112,101,114>>,  \* "pepper"
  <<112,101,114,99,104>>,  \* "perch"
  <<112,101,114,115,105,109,109,111,110>>,  \* "persimmon"
  <<112,105,99,107,108,101>>,  \* "pickle"
  <<112,105,101>>,  \* "pie"
  <<112,105,107,101>>,  \* "pike"
  <<112,105,110,101,97,112,112,108,101>>,  \* "pineapple"
  <<112,105,115,116,97,99,104,105,111>>,  \* "pistachio"
  <<112,105,122,122,97>>,  \* "pizza"
  <<112,108,97,110,116,97,105,110>>,  \* "plantain"
  <<112,108,117,109>>,  \* "plum"
  <<112,111,108,108,111,99,107>>,  \* "pollock"
  <<112,111,109,101,103,114,97,110,97,116,101>>,  \* "pomegranate"
  <<112,111,109,101,108,111>>,  \* "pomelo"
  <<112,111,114,107>>,  \* "pork"
  <<112,111,116,97,116,111>>,  \* "potato"
  <<112,114,97,119,110>>,  \* "prawn"
  <<112,114,101,116,122,101,108>>,  \* "pretzel"
  <<112,114,117,110,101>>,  \* "prune"
  <<113,117,105,110,111,97>>,  \* "quinoa"
  <<114,97,100,105,115,104>>,  \* "radish"
  <<114,97,105,115,105,110>>,  \* "raisin"
  <<114,97,109,101,110>>,  \* "ramen"
  <<114,97,115,112,98,101,114,114,121>>,  \* "raspberry"
  <<114,101,100,99,117,114,114,97,110,116>>,  \* "redcurrant"
  <<114,105,115,111,116,116,111>>,  \* "risotto"
  <<114,111,99,107,102,105,115,104>>,  \* "rockfish"
  <<114,117,116,97,98,97,103,97>>,  \* "rutabaga"
  <<115,97,98,108,101,102,105,115,104>>,  \* "sablefish"
  <<115,97,108,97,109,105>>,  \* "salami"
  <<115,97,108,109,111,110,32,115,116,101,97,107>>,  \* "salmon steak"
  <<115,97,108,109,111,110,98,101,114,114,121>>,  \* "salmonberry"
  <<115,97,108,115,97>>,  \* "salsa"
  <<115,97,114,100,105,110,101>>,  \* "sardine"
  <<115,97,116,115,117,109,97>>,  \* "satsuma"
  <<115,97,117,115,97,103,101>>,  \* "sausage"
  <<115,99,97,108,108,105,111,110>>,  \* "scallion"
  <<115,99,97,108,108,111,112>>,  \* "scallop"
  <<115,101,115,97,109,101>>,  \* "sesame"
  <<115,104,97,108,108,111,116>>,  \* "shallot"
  <<115,104,114,105,109,112>>,  \* "shrimp"
  <<115,110,97,112,112,101,114>>,  \* "snapper"
  <<115,111,108,101>>,  \* "sole"
  <<115,111,114,98,101,116>>,  \* "sorbet"
  <<115,111,121>>,  \* "soy"
  <<115,112,97,103,104,101,116,116,105>>,  \* "spaghetti"
  <<115,112,105,110,97,99,104>>,  \* "spinach"
  <<115,113,117,97,115,104>>,  \* "squash"
  <<115,113,117,105,100>>,  \* "squid"
  <<115,116,97,114,102,114,117,105,116>>,  \* "starfruit"
  <<115,116,101,97,107>>,  \* "steak"
  <<115,116,101,101,108,104,101,97,100>>,  \* "steelhead"
  <<115,116,101,119>>,  \* "stew"
  <<115,116,114,97,119,98,101,114,114,121>>,  \* "strawberry"
  <<115,116,117,114,103,101,111,110>>,  \* "sturgeon"
  <<115,117,103,97,114,97,112,112,108,101>>,  \* "sugarapple"
  <<115,117,110,100,97,101>>,  \* "sundae"
  <<115,117,115,104,105>>,  \* "sushi"
  <<116,97,99,111>>,  \* "taco"
  <<116,97,109,97,114,105,110,100>>,  \* "tamarind"
  <<116,97,110,103,101,114,105,110,101>>,  \* "tangerine"
  <<116,105,108,97,112,105,97>>,  \* "tilapia"
  <<116,111,102,102,101,101>>,  \* "toffee"
  <<116,111,109,97,116,111>>,  \* "tomato"
  <<116,114,117,102,102,108,101>>,  \* "truffle"
  <<116,117,110,97,32,115,116,101,97,107>>,  \* "tuna steak"
  <<116,117,114,98,111,116>>,  \* "turbot"
  <<116,117,114,107,101,121>>,  \* "turkey"
  <<116,117,114,110,105,112>>,  \* "turnip"
  <<118,101,97,108>>,  \* "veal"
  <<118,101,110,105,115,111,110>>,  \* "venison"
  <<119,97,102,102,108,101>>,  \* "waffle"
  <<119,97,108,110,117,116>>,  \* "walnut"
  <<119,97,116,101,114,109,101,108,111,110>>,  \* "watermelon"
  <<119,97,120,97,112,112,108,101>>,  \* "waxapple"
  <<119,104,105,116,101,102,105,115,104>>,  \* "whitefish"
  <<119,105,110,116,101,114,109,101,108,111,110>>,  \* "wintermelon"
  <<121,97,109>>,  \* "yam"
  <<121,111,103,117,114,116>>,  \* "yogurt"
  <<121,111,117,110,103,98,101,114,114,121>>,  \* "youngberry"
  <<121,117,109,98,101,114,114,121>>,  \* "yumberry"
  <<122,105,110,102,97,110,100,101,108>>,  \* "zinfandel"
  <<122,117,99,99,104,105,110,105>>  \* "zucchini"
 >>

\* SCIFI_WORDS.nouns (225 words, in source order; each word is the
\* sequence of its characters' code points).
SCIFI_NOUNS ==
 <<
  <<97,98,108,97,116,105,118,101,32,112,108,97,116,105,110,103>>,  \* "ablative plating"
  <<97,105,32,110,101,120,117,115>>,  \* "ai nexus"
  <<97,110,100,114,111,105,100>>,  \* "android"
  <<97,110,111,109,97,108,121>>,  \* "anomaly"
  <<97,110,116,105,109,97,116,116,101,114,32,99,101,108,108>>,  \* "antimatter cell"
  <<97,112,101,114,116,117,114,101>>,  \* "aperture"
  <<97,115,116,101,114,111,105,100>>,  \* "asteroid"
  <<97,115,116,101,114,111,105,100,32,98,101,108,116>>,  \* "asteroid belt"
  <<97,115,116,114,97,108,32,112,108,97,110,101>>,  \* "astral plane"
  <<97,115,116,114,111,110,97,117,116>>,  \* "astronaut"
  <<97,116,109,111,115,112,104,101,114,101,32,112,114,111,99,101,115,115,111,114>>,  \* "atmosphere processor"
  <<97,117,114,111,114,97>>,  \* "aurora"
  <<98,97,116,116,108,101,32,115,104,105,101,108,100>>,  \* "battle shield"
  <<98,101,97,99,111,110>>,  \* "beacon"
  <<98,105,110,97,114,121,32,115,116,97,114>>,  \* "binary star"
  <<98,105,111,100,111,109,101>>,  \* "biodome"
  <<98,108,97,99,107,32,104,111,108,101>>,  \* "black hole"
  <<98,108,97,115,116,101,114>>,  \* "blaster"
  <<98,108,117,101,32,103,105,97,110,116>>,  \* "blue giant"
  <<99,97,112,115,117,108,101>>,  \* "capsule"
  <<99,97,114,103,111,32,98,97,121>>,  \* "cargo bay"
  <<99,105,116,97,100,101,108>>,  \* "citadel"
  <<99,108,105,109,97,116,101,32,97,114,114,97,121>>,  \* "climate array"
  <<99,108,111,97,107,105,110,103,32,109,101,115,104>>,  \* "cloaking mesh"
  <<99,111,109,101,116>>,  \* "comet"
  <<99,111,109,109,115,32,97,114,114,97,121>>,  \* "comms array"
  <<99,111,110,115,116,101,108,108,97,116,105,111,110>>,  \* "constellation"
  <<99,111,115,109,105,99,32,100,117,115,116>>,  \* "cosmic dust"
  <<99,111,115,109,105,99,32,114,97,121>>,  \* "cosmic ray"
  <<99,111,115,109,111,115>>,  \* "cosmos"
  <<99,111,117,110,116,101,114,109,101,97,115,117,114,101,32,112,97,99,107>>,  \* "countermeasure pack"
  <<99,114,117,105,115,101,114>>,  \* "cruiser"
  <<99,114,121,111,115,108,101,101,112,32,112,111,100>>,  \* "cryosleep pod"
  <<99,121,98,111,114,103>>,  \* "cyborg"
  <<100,97,114,107,32,101,110,101,114,103,121>>,  \* "dark energy"
  <<100,97,114,107,32,109,97,116,116,101,114>>,  \* "dark matter"
  <<100,97,116,97,32,118,97,117,108,116>>,  \* "data vault"
  <<100,101,101,112,32,115,112,97,99,101>>,  \* "deep space"
  <<100,101,101,112,32,115,112,97,99,101,32,112,114,111,98,101>>,  \* "deep space probe"
  <<100,101,102,101,110,115,101,32,103,114,105,100>>,  \* "defense grid"
  <<100,101,102,108,101,99,116,111,114,32,97,114,114,97,121>>,  \* "deflector array"
  <<100,111,99,107,105,110,103,32,116,117,98,101>>,  \* "docking tube"
  <<100,111,109,101,100,32,99,105,116,121>>,  \* "domed city"
  <<100,114,111,105,100>>,  \* "droid"
  <<100,119,97,114,102,32,112,108,97,110,101,116>>,  \* "dwarf planet"
  <<101,99,108,105,112,115,101>>,  \* "eclipse"
  <<101,109,101,114,103,101,110,99,121,32,98,101,97,99,111,110>>,  \* "emergency beacon"
  <<101,110,99,114,121,112,116,105,111,110,32,110,111,100,101>>,  \* "encryption node"
  <<101,110,101,114,103,121,32,109,97,116,114,105,120>>,  \* "energy matrix"
  <<101,110,103,105,110,101>>,  \* "engine"
  <<101,110,105,103,109,97>>,  \* "enigma"
  <<101,118,97,32,115,117,105,116>>,  \* "eva suit"
  <<101,118,101,110,116,32,104,111,114,105,122,111,110>>,  \* "event horizon"
  <<101,120,111,112,108,97,110,101,116>>,  \* "exoplanet"
  <<101,120,111,115,117,105,116>>,  \* "exosuit"
  <<102,97,108,99,111,110>>,  \* "falcon"
  <<102,105,114,101,119,97,108,108,32,103,114,105,100>>,  \* "firewall grid"
  <<102,114,111,110,116,105,101,114>>,  \* "frontier"
  <<102,117,115,105,111,110>>,  \* "fusion"
  <<102,117,115,105,111,110,32,99,111,114,101>>,  \* "fusion core"
  <<102,117,115,105,111,110,32,108,97,98>>,  \* "fusion lab"
  <<103,97,108,97,120,121>>,  \* "galaxy"
  <<103,97,109,109,97,32,114,97,121>>,  \* "gamma ray"
  <<103,97,115,32,103,105,97,110,116>>,  \* "gas giant"
  <<103,97,115,101,111,117,115,32,109,97,115,115>>,  \* "gaseous mass"
  <<103,101,111,116,104,101,114,109,97,108,32,116,97,112>>,  \* "geothermal tap"
  <<103,108,111,98,117,108,97,114,32,99,108,117,115,116,101,114>>,  \* "globular cluster"
  <<103,114,97,118,32,98,111,111,116,115>>,  \* "grav boots"
  <<103,114,97,118,105,116,121,32,97,110,99,104,111,114>>,  \* "gravity anchor"
  <<103,114,97,118,105,116,121,32,104,117,98>>,  \* "gravity hub"
  <<103,114,97,118,105,116,121,32,119,101,108,108>>,  \* "gravity well"
  <<104,97,98,32,112,111,100>>,  \* "hab pod"
  <<104,101,108,105,111,115,112,104,101,114,101>>,  \* "heliosphere"
  <<104,101,117,114,105,115,116,105,99,32,99,111,114,101>>,  \* "heuristic core"
  <<104,111,118,101,114,99,114,97,102,116>>,  \* "hovercraft"
  <<104,121,100,114,111,112,111,110,105,99,115,32,98,97,121>>,  \* "hydroponics bay"
  <<104,121,112,101,114,100,114,105,118,101>>,  \* "hyperdrive"
  <<104,121,112,101,114,103,105,97,110,116>>,  \* "hypergiant"
  <<105,99,101,32,103,105,97,110,116>>,  \* "ice giant"
  <<105,110,101,114,116,105,97,108,32,100,97,109,112,101,114>>,  \* "inertial damper"
  <<105,110,116,101,114,115,116,101,108,108,97,114,32,109,101,100,105,117,109>>,  \* "interstellar medium"
  <<105,111,110>>,  \* "ion"
  <<105,111,110,32,99,111,114,101>>,  \* "ion core"
  <<105,111,110,32,115,116,111,114,109>>,  \* "ion storm"
  <<106,101,116,112,97,99,107>>,  \* "jetpack"
  <<107,101,112,108,101,114>>,  \* "kepler"
  <<107,117,105,112,101,114,32,98,101,108,116>>,  \* "kuiper belt"
  <<108,97,115,101,114,32,99,97,110,110,111,110>>,  \* "laser cannon"
  <<108,97,117,110,99,104,32,119,105,110,100,111,119>>,  \* "launch window"
  <<108,97,117,110,99,104,112,97,100>>,  \* "launchpad"
  <<108,105,103,104,116,32,115,112,101,101,100>>,  \* "light speed"
  <<108,111,103,105,99,32,110,111,100,101>>,  \* "logic node"
  <<108,117,110,97,114,32,98,97,115,101>>,  \* "lunar base"
  <<109,97,103,110,101,116,97,114>>,  \* "magnetar"
  <<109,97,103,110,101,116,111,115,112,104,101,114,101>>,  \* "magnetosphere"
  <<109,97,105,110,102,114,97,109,101,32,99,108,117,115,116,101,114>>,  \* "mainframe cluster"
  <<109,97,105,110,116,101,110,97,110,99,101,32,100,114,111,110,101>>,  \* "maintenance drone"
  <<109,97,115,115,32,100,114,105,118,101,114>>,  \* "mass driver"
  <<109,101,116,101,111,114>>,  \* "meteor"
  <<109,101,116,101,111,114,32,115,104,111,119,101,114>>,  \* "meteor shower"
  <<109,101,116,101,111,114,32,115,116,111,114,109>>,  \* "meteor storm"
  <<109,101,116,101,111,114,105,116,101>>,  \* "meteorite"
  <<109,105,99,114,111,103,114,97,118,105,116,121>>,  \* "microgravity"
  <<109,105,110,105,110,103,32,99,111,108,111,110,121>>,  \* "mining colony"
  <<109,111,100,117,108,101>>,  \* "module"
  <<109,111,116,104,101,114,115,104,105,112>>,  \* "mothership"
  <<110,97,110,111,32,97,114,109,111,114>>,  \* "nano armor"
  <<110,101,98,117,108,97>>,  \* "nebula"
  <<110,101,117,114,97,108,32,99,111,114,101>>,  \* "neural core"
  <<110,101,117,116,114,105,110,111,32,115,99,97,110,110,101,114>>,  \* "neutrino scanner"
  <<110,101,117,116,114,111,110>>,  \* "neutron"
  <<110,111,118,97>>,  \* "nova"
  <<111,98,115,101,114,118,97,116,105,111,110,32,100,101,99,107>>,  \* "observation deck"
  <<111,98,115,101,114,118,97,116,105,111,110,32,100,111,109,101>>,  \* "observation dome"
  <<111,98,115,101,114,118,97,116,111,114,121>>,  \* "observatory"
  <<111,112,101,110,32,99,108,117,115,116,101,114>>,  \* "open cluster"
  <<111,114,98,105,116,97,108,32,112,108,97,116,102,111,114,109>>,  \* "orbital platform"
  <<111,114,98,105,116,97,108,32,114,105,110,103>>,  \* "orbital ring"
  <<111,114,98,105,116,101,114>>,  \* "orbiter"
  <<111,117,116,112,111,115,116>>,  \* "outpost"
  <<112,104,97,110,116,111,109>>,  \* "phantom"
  <<112,104,97,115,101>>,  \* "phase"
  <<112,104,111,116,111,110>>,  \* "photon"
  <<112,104,111,116,111,110,32,98,101,108,116>>,  \* "photon belt"
  <<112,105,111,110,101,101,114>>,  \* "pioneer"
  <<112,108,97,110,101,116,97,114,121,32,110,101,98,117,108,97>>,  \* "planetary nebula"
  <<112,108,97,110,101,116,102,97,108,108>>,  \* "planetfall"
  <<112,108,97,115,109,97>>,  \* "plasma"
  <<112,108,97,115,109,97,32,98,97,116,116,101,114,121>>,  \* "plasma battery"
  <<112,111,114,116,97,108>>,  \* "portal"
  <<100,101,97,116,104,115,116,97,114>>,  \* "deathstar"
  <<115,116,97,114,32,99,114,117,105,115,101,114>>,  \* "star cruiser"
  <<109,105,110,100,32,99,111,110,116,114,111,108>>,  \* "mind control"
  <<99,121,98,101,114,112,117,110,107>>,  \* "cyberpunk"
  <<114,111,98,111,100,111,103>>,  \* "robodog"
  <<114,111,98,111,99,111,112>>,  \* "robocop"
  <<112,111,115,105,116,114,111,110,105,99,32,98,114,97,105,110>>,  \* "positronic brain"
  <<112,111,119,101,114,32,99,111,110,100,117,105,116>>,  \* "power conduit"
  <<112,114,101,100,105,99,116,105,118,101,32,109,111,100,117,108,101>>,  \* "predictive module"
  <<112,114,111,98,101>>,  \* "probe"
  <<112,114,111,116,111,112,108,97,110,101,116>>,  \* "protoplanet"
  <<112,114,111,116,111,115,116,97,114>>,  \* "protostar"
  <<112,117,108,115,97,114>>,  \* "pulsar"
  <<113,117,97,110,116,117,109>>,  \* "quantum"
  <<113,117,97,110,116,117,109,32,97,114,114,97,121>>,  \* "quantum array"
  <<113,117,97,110,116,117,109,32,108,105,110,107>>,  \* "quantum link"
  <<113,117,97,115,97,114>>,  \* "quasar"
  <<114,97,100,105,111,32,116,101,108,101,115,99,111,112,101>>,  \* "radio telescope"
  <<114,97,110,103,101,114>>,  \* "ranger"
  <<114,101,97,99,116,111,114>>,  \* "reactor"
  <<114,101,97,99,116,111,114,32,98,97,121>>,  \* "reactor bay"
  <<114,101,98,114,101,97,116,104,101,114>>,  \* "rebreather"
  <<114,101,100,32,100,119,97,114,102>>,  \* "red dwarf"
  <<114,101,100,32,103,105,97,110,116>>,  \* "red giant"
  <<114,101,108,97,121,32,116,111,119,101,114>>,  \* "relay tower"
  <<114,105,110,103,32,115,121,115,116,101,109>>,  \* "ring system"
  <<114,111,99,107,101,116>>,  \* "rocket"
  <<114,111,103,117,101,32,112,108,97,110,101,116>>,  \* "rogue planet"
  <<115,97,116,101,108,108,105,116,101>>,  \* "satellite"
  <<115,99,97,110,110,101,114,32,112,111,100>>,  \* "scanner pod"
  <<115,99,111,117,116>>,  \* "scout"
  <<115,101,99,117,114,105,116,121,32,102,105,114,101,119,97,108,108>>,  \* "security firewall"
  <<115,101,110,115,111,114,32,115,119,101,101,112>>,  \* "sensor sweep"
  <<115,101,110,115,111,114,32,118,105,115,111,114>>,  \* "sensor visor"
  <<115,101,110,116,105,101,110,99,101,32,99,104,105,112>>,  \* "sentience chip"
  <<115,104,105,101,108,100,32,104,97,114,109,111,110,105,99,115>>,  \* "shield harmonics"
  <<115,104,105,112>>,  \* "ship"
  <<115,104,117,116,116,108,101>>,  \* "shuttle"
  <<115,105,103,110,97,108,32,98,111,111,115,116,101,114>>,  \* "signal booster"
  <<115,105,110,103,117,108,97,114,105,116,121>>,  \* "singularity"
  <<115,111,108,97,114,32,102,108,97,114,101>>,  \* "solar flare"
  <<115,111,108,97,114,32,115,97,105,108>>,  \* "solar sail"
  <<115,111,108,97,114,32,119,105,110,100>>,  \* "solar wind"
  <<115,111,108,115,116,105,99,101>>,  \* "solstice"
  <<115,112,97,99,101,32,99,111,108,111,110,121>>,  \* "space colony"
  <<115,112,97,99,101,32,101,108,101,118,97,116,111,114>>,  \* "space elevator"
  <<115,112,97,99,101,32,112,114,111,98,101>>,  \* "space probe"
  <<115,112,97,99,101,32,115,116,97,116,105,111,110>>,  \* "space station"
  <<115,112,97,99,101,32,116,101,108,101,115,99,111,112,101>>,  \* "space telescope"
  <<115,112,97,99,101,45,116,105,109,101>>,  \* "space-time"
  <<115,112,101,99,116,114,117,109>>,  \* "spectrum"
  <<115,112,101,101,100,101,114>>,  \* "speeder"
  <<115,116,97,114>>,  \* "star"
  <<115,116,97,114,32,99,104,97,114,116>>,  \* "star chart"
  <<115,116,97,114,32,99,108,117,115,116,101,114>>,  \* "star cluster"
  <<115,116,97,114,32,102,111,114,103,101>>,  \* "star forge"
  <<115,116,97,114,32,103,97,116,101>>,  \* "star gate"
  <<115,116,97,114,32,109,97,112>>,  \* "star map"
  <<115,116,97,114,98,97,115,101>>,  \* "starbase"
  <<115,116,97,114,108,105,103,104,116>>,  \* "starlight"
  <<115,116,97,114,115,104,105,112>>,  \* "starship"
  <<105,111,110,32,99,97,110,110,111,110>>,  \* "ion cannon"
  <<115,116,97,116,105,111,110>>,  \* "station"
  <<115,116,101,108,108,97,114,32,110,117,114,115,101,114,121>>,  \* "stellar nursery"
  <<115,116,101,108,108,97,114,32,114,101,97,99,116,111,114>>,  \* "stellar reactor"
  <<115,117,98,115,112,97,99,101,32,114,101,108,97,121>>,  \* "subspace relay"
  <<115,117,112,101,114,103,105,97,110,116>>,  \* "supergiant"
  <<115,117,112,101,114,110,111,118,97>>,  \* "supernova"
  <<115,117,114,118,105,118,97,108,32,112,111,100>>,  \* "survival pod"
  <<116,97,99,104,121,111,110,32,99,97,112,97,99,105,116,111,114>>,  \* "tachyon capacitor"
  <<116,101,108,101,109,101,116,114,121,32,100,114,111,110,101>>,  \* "telemetry drone"
  <<116,101,114,114,97,32,102,97,114,109>>,  \* "terra farm"
  <<116,101,114,114,97,102,111,114,109,32,100,111,109,101>>,  \* "terraform dome"
  <<116,101,114,114,97,102,111,114,109,32,114,105,103>>,  \* "terraform rig"
  <<116,101,114,114,101,115,116,114,105,97,108,32,112,108,97,110,101,116>>,  \* "terrestrial planet"
  <<116,104,114,117,115,116,101,114>>,  \* "thruster"
  <<116,114,97,110,115,112,111,110,100,101,114>>,  \* "transponder"
  <<116,114,97,110,115,112,111,114,116,101,114>>,  \* "transporter"
  <<116,114,105,99,111,114,100,101,114>>,  \* "tricorder"
  <<116,114,105,112,108,101,32,115,116,97,114>>,  \* "triple star"
  <<117,102,111>>,  \* "ufo"
  <<118,101,99,116,111,114>>,  \* "vector"
  <<119,97,114,112>>,  \* "warp"
  <<119,97,121,102,105,110,100,101,114>>,  \* "wayfinder"
  <<119,97,121,112,111,105,110,116>>,  \* "waypoint"
  <<119,101,97,116,104,101,114,32,116,111,119,101,114>>,  \* "weather tower"
  <<119,104,105,116,101,32,100,119,97,114,102>>,  \* "white dwarf"
  <<119,105,110,103>>,  \* "wing"
  <<119,111,114,109,104,111,108,101>>,  \* "wormhole"
  <<120,101,110,111,98,111,116>>,  \* "xenobot"
  <<120,101,110,111,110>>,  \* "xenon"
  <<122,101,110,105,116,104>>,  \* "zenith"
  <<122,101,112,104,121,114>>,  \* "zephyr"
  <<122,105,114,99,111,110>>,  \* "zircon"
  <<122,111,100,105,97,99>>  \* "zodiac"
 >>

\* WordLists.nouns of the list a theme names: &FOOD_WORDS or &SCIFI_WORDS.
Themes == {"food", "scifi"}

nouns(theme) == IF theme = "food" THEN FOOD_NOUNS ELSE SCIFI_NOUNS

\* ------------------------------------------------------------------------
\* Pair selector
\* ------------------------------------------------------------------------

\* list[i.value], i what index gave: the state, the word, and whether the
\* index call or the slice access panicked (Rust panics on an index out of
\* range).
At(list, i) ==
  IF i.panic \/ i.value >= Len(list)
  THEN [state |-> i.state, panic |-> TRUE, word |-> <<>>]
  ELSE [state |-> i.state, panic |-> FALSE, word |-> list[i.value + 1]]

\* list[rng.index(list.len())]
Select(list, state) == At(list, TinyRng_index(state, Len(list)))

\* NamePair { adjective, noun }, with the state of the TinyRng afterwards;
\* a panic leaves no pair, and the draws made before it stay made.
Panicked(state) ==
  [state |-> state, panic |-> TRUE, adjective |-> <<>>, noun |-> <<>>]

NamePairOf(a, n) ==
  IF n.panic THEN Panicked(n.state)
  ELSE [state |-> n.state, panic |-> FALSE, adjective |-> a.word, noun |-> n.word]

\* The second statement of select_pair, a what the first gave.
SelectNoun(words, a) ==
  IF a.panic THEN Panicked(a.state) ELSE NamePairOf(a, Select(words, a.state))

\* The statements of select_pair in the other order: the noun is drawn first.
NounThenAdjective(n, a) ==
  [state |-> a.state, panic |-> FALSE, adjective |-> a.word, noun |-> n.word]

SelectAdjectiveAfter(n) == NounThenAdjective(n, Select(ADJECTIVES, n.state))

SelectPairNounFirst(words, state) == SelectAdjectiveAfter(Select(words, state))

\* select_pair: the state of the TinyRng afterwards, the NamePair returned,
\* and whether the call panicked.
select_pair(words, state) == SelectNoun(words, Select(ADJECTIVES, state))

\* ------------------------------------------------------------------------
\* Title-Case formatter
\* ------------------------------------------------------------------------

HYPHEN == 45
UNDERSCORE == 95
SPACE == 32

\* char::to_uppercase and char::to_lowercase, each the sequence of the
\* characters the iterator yields, on the characters the model draws words
\* from: ASCII, U+00DF (sharp s, whose upper case is "SS"), U+0130 (capital
\* I with dot above, whose lower case is "i" followed by U+0307).
to_uppercase(ch) ==
  IF ch \in 97..122 THEN <<ch - 32>>
  ELSE IF ch = 223 THEN <<83, 83>>
  ELSE <<ch>>

to_lowercase(ch) ==
  IF ch \in 65..90 THEN <<ch + 32>>
  ELSE IF ch = 304 THEN <<105, 775>>
  ELSE <<ch>>

\* The loop of push_title_case from the i-th character of word on, with the
\* flag capitalize_next and the buffer as they stand: the buffer afterwards.
RECURSIVE TitleLoopNoReset(_, _, _, _)
TitleLoopNoReset(word, i, capitalize_next, buf) ==
  IF i > Len(word) THEN buf
  ELSE IF word[i] = HYPHEN \/ word[i] = UNDERSCORE \/ word[i] = SPACE
  THEN TitleLoopNoReset(word, i + 1, capitalize_next, Append(buf, SPACE))
  ELSE IF capitalize_next
  THEN TitleLoopNoReset(word, i + 1, FALSE, buf \o to_uppercase(word[i]))
  ELSE TitleLoopNoReset(word, i + 1, FALSE, buf \o to_lowercase(word[i]))

RECURSIVE TitleLoop(_, _, _, _)
TitleLoop(word, i, capitalize_next, buf) ==
  IF i > Len(word) THEN buf
  ELSE IF word[i] = HYPHEN \/ word[i] = UNDERSCORE \/ word[i] = SPACE
  THEN TitleLoop(word, i + 1, TRUE, Append(buf, SPACE))
  ELSE IF capitalize_next
  THEN TitleLoop(word, i + 1, FALSE, buf \o to_uppercase(word[i]))
  ELSE TitleLoop(word, i + 1, FALSE, buf \o to_lowercase(word[i]))

RECURSIVE TitleLoopKeepDelimiter(_, _, _, _)
TitleLoopKeepDelimiter(word, i, capitalize_next, buf) ==
  IF i > Len(word) THEN buf
  ELSE IF word[i] = HYPHEN \/ word[i] = UNDERSCORE \/ word[i] = SPACE
  THEN TitleLoopKeepDelimiter(word, i + 1, TRUE, Append(buf, word[i]))
  ELSE IF capitalize_next
  THEN TitleLoopKeepDelimiter(word, i + 1, FALSE, buf \o to_uppercase(word[i]))
  ELSE TitleLoopKeepDelimiter(word, i + 1, FALSE, buf \o to_lowercase(word[i]))

\* push_title_case(word, buf): the buffer afterwards.
PushTitleCaseNoReset(word, buf) == TitleLoopNoReset(word, 1, TRUE, buf)

PushTitleCaseLower(word, buf) == TitleLoop(word, 1, FALSE, buf)

PushTitleCaseKeepDelimiter(word, buf) ==
  TitleLoopKeepDelimiter(word, 1, TRUE, buf)

push_title_case(word, buf) == TitleLoop(word, 1, TRUE, buf)

\* NamePair::title_case
title_case(pair) ==
  push_title_case(pair.noun,
                  Append(push_title_case(pair.adjective, <<>>), SPACE))

\* ------------------------------------------------------------------------
\* State
\* ------------------------------------------------------------------------

\* Option values: None, or Some(x).
None == <<>>

Some(x) == <<x>>

\* The NameGenerator instances a caller holds, and the threads that call
\* the random_* functions.
Gens == {"one", "two"}

Threads == {"t1", "t2"}

\* The most calls made on one NameGenerator.
MaxDraws == 2

\* The most random_* calls made by one thread.
MaxCalls == 2

\* The most calls made on the TinyRng exercised directly.
MaxRngDraws == 3

\* The most seed_from_entropy calls made before that TinyRng is seeded.
MaxSeedings == 2

\* The longest word handed to the formatter directly.
MaxWordLen == 2

\* Seeds handed to from_seed: 0, the constant 0 is remapped to, and 42 (the
\* seed of tests::seeded_generator_is_deterministic).
Seeds == {ZERO, REMAP_SEED, U64Small(42)}

\* Clock readings (as_nanos() as u64): 0, what unwrap_or(0) gives when the
\* clock is before the epoch; 0x0000000100000001, which cancels the counter's
\* first value 1 in time ^ extra ^ extra.rotate_left(32); and a reading of
\* the year 2026.
Times ==
  {ZERO,
   U64Hex(0, 0, 0, 1, 0, 0, 0, 1),
   U64Hex(\H18, \HA0, \H5F, \H3C, \H2B, \H71, \H09, \HD4)}

\* The clock reading when a TinyRng is seeded from entropy beside the threads.
GlobalTimes == {U64Hex(\H18, \HA0, \H5F, \H3C, \H2B, \H71, \H09, \HD4)}

\* The bounds index is called with directly: 0, 1, 2 and the three list
\* lengths.
Uppers == {0, 1, 2, Len(ADJECTIVES), Len(FOOD_NOUNS), Len(SCIFI_NOUNS)}

VARIABLES
  generators,       \* [Gens -> Option]: rng.state of each NameGenerator (None: not constructed)
  GLOBAL_RNG,       \* [Threads -> Option]: state of the thread-local TinyRng (None: not yet initialised)
  ENTROPY_COUNTER,  \* the static AtomicU64
  rng,              \* Option: state of a TinyRng exercised directly
  pair,             \* Option: the NamePair last returned, or handed to title_case
  text,             \* Option: the String last returned
  probe,            \* history: how rng was seeded, the calls made on it and the last of them
  origin,           \* history: how each generator was constructed
  drawn,            \* history: the calls completed on each generator and by each thread
  seedings          \* history: the initialisations of each thread's GLOBAL_RNG

vars == <<generators, GLOBAL_RNG, ENTROPY_COUNTER, rng, pair, text, probe,
          origin, drawn, seedings>>

NoProbe == [how |-> "none", seed |-> ZERO, calls |-> 0, op |-> "none", upper |-> 0,
            pre |-> ZERO, post |-> ZERO, value |-> 0, panic |-> FALSE]

InitCommon ==
  /\ generators = [g \in Gens |-> None]
  /\ GLOBAL_RNG = [t \in Threads |-> None]
  /\ ENTROPY_COUNTER = ENTROPY_COUNTER_INIT
  /\ rng = None
  /\ text = None
  /\ probe = NoProbe
  /\ origin = [g \in Gens |-> None]
  /\ drawn = [o \in Gens \cup Threads |-> <<>>]
  /\ seedings = [t \in Threads |-> <<>>]

Init == InitCommon /\ pair = None

\* ------------------------------------------------------------------------
\* NameGenerator
\* ------------------------------------------------------------------------

\* A generator with the given rng state comes into being in slot g.
Construct(g, state, how) ==
  /\ generators[g] = None
  /\ generators' = [generators EXCEPT ![g] = Some(state)]
  /\ origin' = [origin EXCEPT ![g] = Some(how)]
  /\ UNCHANGED <<GLOBAL_RNG, rng, pair, text, probe, drawn, seedings>>

\* NameGenerator::from_seed(seed)
FromSeedViaEntropy(g, seed) ==
  /\ Construct(g, TinyRng_seed_from_entropy(seed, ENTROPY_COUNTER),
               [kind |-> "from_seed", seed |-> seed, of |-> "none", at |-> 0])
  /\ ENTROPY_COUNTER' = WrappingAdd(ENTROPY_COUNTER, ENTROPY_STEP)

NameGenerator_from_seed(g, seed) ==
  /\ Construct(g, TinyRng_from_seed(seed),
               [kind |-> "from_seed", seed |-> seed, of |-> "none", at |-> 0])
  /\ UNCHANGED ENTROPY_COUNTER

\* NameGenerator::new(), and Default::default(): the clock reads time;
\* fetch_add returns the counter's value and adds 0x9E37 to it, atomically.
NameGenerator_new(g, time) ==
  /\ Construct(g, TinyRng_seed_from_entropy(time, ENTROPY_COUNTER),
               [kind |-> "new", seed |-> time, of |-> "none", at |-> 0])
  /\ ENTROPY_COUNTER' = WrappingAdd(ENTROPY_COUNTER, ENTROPY_STEP)

\* #[derive(Clone)] on NameGenerator and TinyRng: the state of the clone's
\* rng.
CloneRestartsFromSeed(src) ==
  IF origin[src][1].kind = "clone" THEN generators[src][1]
  ELSE TinyRng_from_seed(origin[src][1].seed)

ClonedRng(src) == generators[src][1]

\* dst = src.clone()
NameGenerator_clone(src, dst) ==
  /\ src # dst
  /\ generators[src] # None
  /\ Construct(dst, ClonedRng(src),
               [kind |-> "clone", seed |-> ZERO, of |-> src, at |-> Len(drawn[src])])
  /\ UNCHANGED ENTROPY_COUNTER

\* The record of a completed select_pair call.
Entry(theme, pre, r) ==
  [theme |-> theme, pre |-> pre, post |-> r.state, panic |-> r.panic,
   adjective |-> r.adjective, noun |-> r.noun]

\* What a call returns: the NamePair of select_pair from the *_words
\* functions, its title_case() from the *_name functions; nothing when
\* select_pair panicked.
Returns(formatted, r) ==
  /\ pair' = IF r.panic \/ formatted THEN None
             ELSE Some([adjective |-> r.adjective, noun |-> r.noun])
  /\ text' = IF r.panic \/ ~formatted THEN None
             ELSE Some(title_case([adjective |-> r.adjective, noun |-> r.noun]))

\* A call on generator g that selects from the theme's list through
\* &mut self.rng.
Draw(g, theme, formatted) ==
  /\ generators[g] # None
  /\ Len(drawn[g]) < MaxDraws
  /\ \E r \in {select_pair(nouns(theme), generators[g][1])} :
       /\ generators' = [generators EXCEPT ![g] = Some(r.state)]
       /\ drawn' = [drawn EXCEPT ![g] = Append(@, Entry(theme, generators[g][1], r))]
       /\ Returns(formatted, r)
  /\ UNCHANGED <<GLOBAL_RNG, ENTROPY_COUNTER, rng, probe, origin, seedings>>

NameGenerator_food_words(g) == Draw(g, "food", FALSE)

NameGenerator_scifi_words(g) == Draw(g, "scifi", FALSE)

NameGenerator_food_name(g) == Draw(g, "food", TRUE)

NameGenerator_scifi_name(g) == Draw(g, "scifi", TRUE)

\* ------------------------------------------------------------------------
\* Global convenience entry points
\* ------------------------------------------------------------------------

\* thread_local!: the instance of GLOBAL_RNG that thread t reaches.
SharedStatic(t) == "t1"

LocalKey(t) == t

\* GLOBAL_RNG.with on thread t: the TinyRng the closure is handed. On the
\* thread's first access the instance is not initialised and the initialiser
\* RefCell::new(TinyRng::seed_from_entropy()) makes it, the clock reading
\* time.
GLOBAL_RNG_with(t, time) ==
  IF GLOBAL_RNG[LocalKey(t)] = None
  THEN TinyRng_seed_from_entropy(time, ENTROPY_COUNTER)
  ELSE GLOBAL_RNG[LocalKey(t)][1]

\* random_pair on thread t: select_pair on the borrowed thread-local TinyRng;
\* random_name formats what it returns.
random_pair(t, theme, formatted, time) ==
  /\ Len(drawn[t]) < MaxCalls
  /\ \E pre \in {GLOBAL_RNG_with(t, time)} :
       \E r \in {select_pair(nouns(theme), pre)} :
         /\ GLOBAL_RNG' = [GLOBAL_RNG EXCEPT ![LocalKey(t)] = Some(r.state)]
         /\ drawn' = [drawn EXCEPT ![t] = Append(@, Entry(theme, pre, r))]
         /\ seedings' =
              IF GLOBAL_RNG[LocalKey(t)] = None
              THEN [seedings EXCEPT ![t] =
                      Append(@, [at |-> Len(drawn[t]), state |-> pre])]
              ELSE seedings
         /\ Returns(formatted, r)
  /\ ENTROPY_COUNTER' =
       IF GLOBAL_RNG[LocalKey(t)] = None
       THEN WrappingAdd(ENTROPY_COUNTER, ENTROPY_STEP)
       ELSE ENTROPY_COUNTER
  /\ UNCHANGED <<generators, rng, probe, origin>>

random_food_name(t, time) == random_pair(t, "food", TRUE, time)

random_scifi_name(t, time) == random_pair(t, "scifi", TRUE, time)

random_food_words(t, time) == random_pair(t, "food", FALSE, time)

random_scifi_words(t, time) == random_pair(t, "scifi", FALSE, time)

\* ------------------------------------------------------------------------
\* A TinyRng exercised directly
\* ------------------------------------------------------------------------

\* The counter after k fetch_add(0x9E37).
RECURSIVE CounterAfter(_)
CounterAfter(k) ==
  IF k = 0 THEN ENTROPY_COUNTER_INIT
  ELSE WrappingAdd(CounterAfter(k - 1), ENTROPY_STEP)

\* Some other TinyRng is seeded from entropy, which advances the counter.
Other_seed_from_entropy ==
  /\ rng = None
  /\ ENTROPY_COUNTER # CounterAfter(MaxSeedings)
  /\ ENTROPY_COUNTER' = WrappingAdd(ENTROPY_COUNTER, ENTROPY_STEP)
  /\ UNCHANGED <<generators, GLOBAL_RNG, rng, pair, text, probe, origin,
                 drawn, seedings>>

\* rng = TinyRng::from_seed(seed)
Rng_from_seed(seed) ==
  /\ rng = None
  /\ rng' = Some(TinyRng_from_seed(seed))
  /\ probe' = [NoProbe EXCEPT !.how = "from_seed", !.seed = seed]
  /\ UNCHANGED <<generators, GLOBAL_RNG, ENTROPY_COUNTER, pair, text, origin,
                 drawn, seedings>>

\* rng = TinyRng::seed_from_entropy(), the clock reading time.
Rng_seed_from_entropy(time) ==
  /\ rng = None
  /\ rng' = Some(TinyRng_seed_from_entropy(time, ENTROPY_COUNTER))
  /\ probe' = [NoProbe EXCEPT
                 !.how = "seed_from_entropy",
                 !.seed = Xor(Xor(time, ENTROPY_COUNTER),
                              RotateLeft(ENTROPY_COUNTER, 32))]
  /\ ENTROPY_COUNTER' = WrappingAdd(ENTROPY_COUNTER, ENTROPY_STEP)
  /\ UNCHANGED <<generators, GLOBAL_RNG, pair, text, origin, drawn, seedings>>

\* rng.next_u64()
Rng_next_u64 ==
  /\ rng # None
  /\ probe.calls < MaxRngDraws
  /\ \E d \in {TinyRng_next_u64(rng[1])} :
       /\ rng' = Some(d.state)
       /\ probe' = [probe EXCEPT !.calls = @ + 1, !.op = "next_u64", !.upper = 0,
                                 !.pre = rng[1], !.post = d.state,
                                 !.value = 0, !.panic = FALSE]
  /\ UNCHANGED <<generators, GLOBAL_RNG, ENTROPY_COUNTER, pair, text, origin,
                 drawn, seedings>>

\* rng.index(upper)
Rng_index(upper) ==
  /\ rng # None
  /\ probe.calls < MaxRngDraws
  /\ \E r \in {TinyRng_index(rng[1], upper)} :
       /\ rng' = Some(r.state)
       /\ probe' = [probe EXCEPT !.calls = @ + 1, !.op = "index", !.upper = upper,
                                 !.pre = rng[1], !.post = r.state,
                                 !.value = r.value, !.panic = r.panic]
  /\ UNCHANGED <<generators, GLOBAL_RNG, ENTROPY_COUNTER, pair, text, origin,
                 drawn, seedings>>

\* ------------------------------------------------------------------------
\* The formatter applied directly
\* ------------------------------------------------------------------------

\* The characters words are drawn from: a, B, hyphen, underscore, space and
\* U+00DF.
Alphabet == {97, 66, HYPHEN, UNDERSCORE, SPACE, 223}

\* The non-empty words over the alphabet of at most n characters.
RECURSIVE WordsUpTo(_)
WordsUpTo(n) ==
  IF n = 0 THEN {}
  ELSE LET shorter == WordsUpTo(n - 1)
       IN  {<<c>> : c \in Alphabet} \cup shorter
             \cup {Append(w, c) : w \in shorter, c \in Alphabet}

\* The words of the formatter's test and of the spec's examples: "shiny",
\* "mango", "glossy", "black cod", "space-time".
ExampleWords ==
  {<<115, 104, 105, 110, 121>>,
   <<109, 97, 110, 103, 111>>,
   <<103, 108, 111, 115, 115, 121>>,
   <<98, 108, 97, 99, 107, 32, 99, 111, 100>>,
   <<115, 112, 97, 99, 101, 45, 116, 105, 109, 101>>}

Words == WordsUpTo(MaxWordLen) \cup ExampleWords

\* A caller builds a NamePair (its fields are public).
InitTitle ==
  /\ InitCommon
  /\ \E a \in Words, n \in Words : pair = Some([adjective |-> a, noun |-> n])

\* pair.title_case()
NamePair_title_case ==
  /\ pair # None
  /\ text = None
  /\ text' = Some(title_case(pair[1]))
  /\ UNCHANGED <<generators, GLOBAL_RNG, ENTROPY_COUNTER, rng, pair, probe,
                 origin, drawn, seedings>>

\* ------------------------------------------------------------------------
\* Specifications
\* ------------------------------------------------------------------------

\* NameGenerator instances, seeded, cloned and drawn from.
Next ==
  \/ \E g \in Gens, seed \in Seeds : NameGenerator_from_seed(g, seed)
  \/ \E src \in Gens, dst \in Gens : NameGenerator_clone(src, dst)
  \/ \E g \in Gens : NameGenerator_food_words(g)
  \/ \E g \in Gens : NameGenerator_scifi_words(g)
  \/ \E g \in Gens : NameGenerator_food_name(g)
  \/ \E g \in Gens : NameGenerator_scifi_name(g)

Spec == Init /\ [][Next]_vars

\* The free functions on two threads, beside a NameGenerator.
NextGlobal ==
  \/ \E t \in Threads, time \in GlobalTimes : random_food_name(t, time)
  \/ \E t \in Threads, time \in GlobalTimes : random_scifi_name(t, time)
  \/ \E t \in Threads, time \in GlobalTimes : random_food_words(t, time)
  \/ \E t \in Threads, time \in GlobalTimes : random_scifi_words(t, time)
  \/ \E time \in GlobalTimes : NameGenerator_new("one", time)
  \/ NameGenerator_scifi_name("one")

SpecGlobal == Init /\ [][NextGlobal]_vars

\* One TinyRng, seeded either way and drawn from.
NextRng ==
  \/ Other_seed_from_entropy
  \/ \E seed \in Seeds : Rng_from_seed(seed)
  \/ \E time \in Times \cup {Xor(ENTROPY_COUNTER, RotateLeft(ENTROPY_COUNTER, 32))} :
       Rng_seed_from_entropy(time)
  \/ Rng_next_u64
  \/ \E upper \in Uppers : Rng_index(upper)

SpecRng == Init /\ [][NextRng]_vars

\* title_case on a NamePair of the caller's making.
NextTitle == NamePair_title_case

SpecTitle == InitTitle /\ [][NextTitle]_vars

\* ------------------------------------------------------------------------
\* Properties
\* ------------------------------------------------------------------------

Min(a, b) == IF a < b THEN a ELSE b

\* What a completed call gave its caller.
Returned(e) == [panic |-> e.panic, adjective |-> e.adjective, noun |-> e.noun]

\* Generator g was built by from_seed.
FromSeed(g) == origin[g] # None /\ origin[g][1].kind = "from_seed"

\* Generator g was built by clone().
IsClone(g) == origin[g] # None /\ origin[g][1].kind = "clone"

\* The first n calls made on g and on h asked for the same themes, and the
\* calls of h after its first `skip` ones are meant.
SameThemes(g, h, skip, n) ==
  \A j \in 1..n : drawn[g][j].theme = drawn[h][skip + j].theme

\* C1: two generators built by from_seed with the same seed and given the
\* same sequence of food/scifi calls return equal pairs at every position.
C1_SeededDeterminism ==
  \A g \in Gens, h \in Gens :
    (FromSeed(g) /\ FromSeed(h) /\ origin[g][1].seed = origin[h][1].seed)
    => \A i \in 1..Min(Len(drawn[g]), Len(drawn[h])) :
         SameThemes(g, h, 0, i) => Returned(drawn[g][i]) = Returned(drawn[h][i])

\* Both generators were seeded with 0 and each has answered a food call and
\* then a scifi call.
C1_Witness ==
  /\ FromSeed("one") /\ FromSeed("two")
  /\ origin["one"][1].seed = ZERO /\ origin["two"][1].seed = ZERO
  /\ Len(drawn["one"]) >= 2 /\ Len(drawn["two"]) >= 2
  /\ drawn["one"][1].theme = "food" /\ drawn["two"][1].theme = "food"
  /\ drawn["one"][2].theme = "scifi" /\ drawn["two"][2].theme = "scifi"

\* The calls on g start from the state its construction or its previous call
\* left, and its state now is the one its last call left.
OwnChain(g) ==
  /\ \A k \in 2..Len(drawn[g]) : drawn[g][k].pre = drawn[g][k - 1].post
  /\ (generators[g] # None /\ drawn[g] # <<>>)
       => generators[g][1] = drawn[g][Len(drawn[g])].post

\* C2: a clone made after any number of draws returns, call for call, what
\* its source returns from the point of cloning on under the same calls, and
\* the draws of the one leave the state of the other alone.
C2_CloneEquivalence ==
  \A c \in Gens :
    IsClone(c) =>
      /\ OwnChain(c)
      /\ OwnChain(origin[c][1].of)
      /\ \A i \in 1..Len(drawn[c]) :
           (/\ origin[c][1].at + i <= Len(drawn[origin[c][1].of])
            /\ SameThemes(c, origin[c][1].of, origin[c][1].at, i))
           => Returned(drawn[c][i])
                = Returned(drawn[origin[c][1].of][origin[c][1].at + i])

\* "two" was cloned from "one" after a draw, and both have since answered
\* the same call.
C2_Witness ==
  /\ IsClone("two")
  /\ origin["two"][1].at >= 1
  /\ Len(drawn["two"]) >= 1
  /\ Len(drawn["one"]) >= origin["two"][1].at + 1
  /\ SameThemes("two", "one", origin["two"][1].at, 1)

\* The words of each list.
AdjectiveSet == {ADJECTIVES[i] : i \in 1..Len(ADJECTIVES)}

FoodNounSet == {FOOD_NOUNS[i] : i \in 1..Len(FOOD_NOUNS)}

ScifiNounSet == {SCIFI_NOUNS[i] : i \in 1..Len(SCIFI_NOUNS)}

\* C3: every food_words() and scifi_words() call returns an adjective of
\* ADJECTIVES and a noun of the list of its theme; no index is out of range
\* (select_pair does not panic).
C3_SelectionInRange ==
  \A g \in Gens : \A k \in 1..Len(drawn[g]) :
    /\ ~drawn[g][k].panic
    /\ drawn[g][k].adjective \in AdjectiveSet
    /\ drawn[g][k].noun \in
         (IF drawn[g][k].theme = "food" THEN FoodNounSet ELSE ScifiNounSet)

\* A generator has answered a food call and a scifi call.
C3_Witness ==
  \E g \in Gens :
    /\ Len(drawn[g]) >= 2
    /\ drawn[g][1].theme = "food"
    /\ drawn[g][2].theme = "scifi"

\* ---- the formatter

IsDelimiter(ch) == ch = HYPHEN \/ ch = UNDERSCORE \/ ch = SPACE

\* What the i-th character of word w becomes: a delimiter a space, the first
\* character and a character after a delimiter its upper case, any other
\* character its lower case.
RenderedChar(w, i) ==
  IF IsDelimiter(w[i]) THEN <<SPACE>>
  ELSE IF i = 1 \/ IsDelimiter(w[i - 1]) THEN to_uppercase(w[i])
  ELSE to_lowercase(w[i])

RECURSIVE RenderedFrom(_, _)
RenderedFrom(w, i) ==
  IF i > Len(w) THEN <<>> ELSE RenderedChar(w, i) \o RenderedFrom(w, i + 1)

Rendering(w) == RenderedFrom(w, 1)

\* "shiny", "mango", "glossy", "black cod"
Shiny == <<115, 104, 105, 110, 121>>

Mango == <<109, 97, 110, 103, 111>>

Glossy == <<103, 108, 111, 115, 115, 121>>

BlackCod == <<98, 108, 97, 99, 107, 32, 99, 111, 100>>

\* "Shiny Mango", "Glossy Black Cod"
ShinyMango == <<83, 104, 105, 110, 121, 32, 77, 97, 110, 103, 111>>

GlossyBlackCod ==
  <<71, 108, 111, 115, 115, 121, 32, 66, 108, 97, 99, 107, 32, 67, 111, 100>>

\* C4: in the string title_case returns, the adjective (at its start) and
\* the noun (at its end) are each rendered with the first character and every
\* character after a hyphen, underscore or space in upper case and every other
\* non-delimiter character in lower case, whatever the case of the input;
\* ("shiny", "mango") gives "Shiny Mango" and ("glossy", "black cod") gives
\* "Glossy Black Cod".
C4_TitleCaseRendering ==
  (pair # None /\ text # None) =>
    /\ Len(text[1]) >= Len(Rendering(pair[1].adjective))
    /\ Len(text[1]) >= Len(Rendering(pair[1].noun))
    /\ SubSeq(text[1], 1, Len(Rendering(pair[1].adjective)))
         = Rendering(pair[1].adjective)
    /\ SubSeq(text[1], Len(text[1]) - Len(Rendering(pair[1].noun)) + 1, Len(text[1]))
         = Rendering(pair[1].noun)
    /\ (pair[1] = [adjective |-> Shiny, noun |-> Mango] => text[1] = ShinyMango)
    /\ (pair[1] = [adjective |-> Glossy, noun |-> BlackCod]
          => text[1] = GlossyBlackCod)

\* ("glossy", "black cod") has been formatted.
C4_Witness ==
  /\ pair = Some([adjective |-> Glossy, noun |-> BlackCod])
  /\ text = Some(GlossyBlackCod)

\* char::is_whitespace
IsWhitespace(ch) == ch \in (9..13) \cup {32, 133, 160}

\* C5: for every NamePair of non-empty words the string title_case returns
\* is the rendered adjective, exactly one space, the rendered noun, and it
\* neither starts nor ends with whitespace.
C5_JoinedNoOuterWhitespace ==
  (pair # None /\ text # None) =>
    /\ text[1] = push_title_case(pair[1].adjective, <<>>) \o <<SPACE>>
                   \o push_title_case(pair[1].noun, <<>>)
    /\ ~IsWhitespace(text[1][1])
    /\ ~IsWhitespace(text[1][Len(text[1])])

\* char::is_uppercase, on the characters of the model.
IsUppercase(ch) == ch \in 65..90 \/ ch = 304

\* C6: every string the random_*_name functions return is non-empty, starts
\* with an upper-case character and has a space that is neither its first
\* nor its last character.
C6_WellFormedNames ==
  text # None =>
    /\ Len(text[1]) > 0
    /\ IsUppercase(text[1][1])
    /\ \E i \in 2..(Len(text[1]) - 1) : text[1][i] = SPACE

\* The last call of a thread.
LastCall(t) == drawn[t][Len(drawn[t])]

\* A thread's second random_*_name call has just returned its string.
C6_Witness ==
  \E t \in Threads :
    /\ Len(drawn[t]) >= 2
    /\ text = Some(title_case([adjective |-> LastCall(t).adjective,
                               noun |-> LastCall(t).noun]))

\* C7: each thread's GLOBAL_RNG is created once, at the thread's first
\* random_* call, and never seeded again: the first call draws from the state
\* the initialiser made, the k-th from the state the (k-1)-th left, and the
\* state now is the one the thread's last call left, whatever the other
\* threads and the NameGenerator instances did in between.
C7_ThreadLocalState ==
  \A t \in Threads :
    /\ Len(seedings[t]) <= 1
    /\ (GLOBAL_RNG[t] = None) <=> (seedings[t] = <<>>)
    /\ drawn[t] # <<>> =>
         /\ seedings[t] # <<>>
         /\ seedings[t][1].at = 0
         /\ drawn[t][1].pre = seedings[t][1].state
         /\ GLOBAL_RNG[t] = Some(LastCall(t).post)
    /\ \A k \in 2..Len(drawn[t]) : drawn[t][k].pre = drawn[t][k - 1].post

\* Both threads have made two calls and the generator has been drawn from.
C7_Witness ==
  /\ \A t \in Threads : Len(drawn[t]) >= 2
  /\ Len(drawn["one"]) >= 1

\* C8: the state of a TinyRng is never zero: not after from_seed, not after
\* seed_from_entropy, not after any number of draws.
C8_StateNonZero ==
  /\ rng # None => rng[1] # ZERO
  /\ \A g \in Gens : generators[g] # None => generators[g][1] # ZERO
  /\ \A t \in Threads : GLOBAL_RNG[t] # None => GLOBAL_RNG[t][1] # ZERO

\* The clock and the counter cancelled, so that seed_from_entropy handed
\* from_seed a zero, and the TinyRng has been drawn from twice since.
C8_Witness ==
  /\ probe.how = "seed_from_entropy"
  /\ probe.seed = ZERO
  /\ probe.calls >= 2
  /\ ENTROPY_COUNTER # CounterAfter(1)

\* 256^k mod m
RECURSIVE PowMod(_, _)
PowMod(k, m) == IF k = 0 THEN 1 % m ELSE (256 * PowMod(k - 1, m)) % m

\* v mod m, from the residues of v's bytes.
Residue(v, m) ==
  (v[1] * PowMod(0, m) + v[2] * PowMod(1, m) + v[3] * PowMod(2, m)
   + v[4] * PowMod(3, m) + v[5] * PowMod(4, m) + v[6] * PowMod(5, m)
   + v[7] * PowMod(6, m) + v[8] * PowMod(7, m)) % m

\* C9: index(0) returns 0 without failing; index(bound) for bound > 0
\* returns next_u64() modulo bound.
C9_IndexContract ==
  probe.op = "index" =>
    /\ ~probe.panic
    /\ probe.upper = 0 => probe.value = 0
    /\ probe.upper > 0 =>
         /\ probe.post = TinyRng_next_u64(probe.pre).state
         /\ probe.value < probe.upper
         /\ probe.value = Residue(TinyRng_next_u64(probe.pre).value, probe.upper)

\* index(0) has been called on a TinyRng that had been drawn from.
C9_Witness ==
  /\ probe.op = "index"
  /\ probe.upper = 0
  /\ probe.calls >= 2
  /\ probe.value = 0

\* One xorshift step on the state, and the number next_u64 returns from the
\* state it stored.
Stepped(x) == XorShr(XorShl(XorShr(x, 12), 25), 27)

Output(x) == WrappingMul(x, MULTIPLIER)

\* Entry e of a call: first and second are the states after the first and
\* the second next_u64 step from e.pre.
DrewTwice(e, first, second) ==
  /\ e.post = second
  /\ e.adjective = ADJECTIVES[Residue(Output(first), Len(ADJECTIVES)) + 1]
  /\ e.noun = nouns(e.theme)[Residue(Output(second), Len(nouns(e.theme))) + 1]

DrewFrom(e, first) == DrewTwice(e, first, Stepped(first))

\* C10: every call moves the generator's state on by exactly two next_u64
\* steps; the first draw picks the adjective and the second the noun; so two
\* calls from the same state leave the same state and return the same
\* adjective, whichever themes they asked for.
C10_TwoDrawsPerCall ==
  /\ \A g \in Gens : \A k \in 1..Len(drawn[g]) :
       DrewFrom(drawn[g][k], Stepped(drawn[g][k].pre))
  /\ \A g \in Gens, h \in Gens :
       \A i \in 1..Len(drawn[g]), j \in 1..Len(drawn[h]) :
         drawn[g][i].pre = drawn[h][j].pre
         => /\ drawn[g][i].post = drawn[h][j].post
            /\ drawn[g][i].adjective = drawn[h][j].adjective

\* From one state, one generator answered a food call and the other a scifi
\* call, the last of the calls being a *_name one.
C10_Witness ==
  /\ text # None
  /\ \E i \in 1..Len(drawn["one"]), j \in 1..Len(drawn["two"]) :
       /\ drawn["one"][i].pre = drawn["two"][j].pre
       /\ drawn["one"][i].theme = "food"
       /\ drawn["two"][j].theme = "scifi"

\* ---- delimiters in the rendering

\* The number of characters the first i characters of word w are rendered
\* as.
RECURSIVE RenderedLen(_, _)
RenderedLen(w, i) ==
  IF i = 0 THEN 0 ELSE RenderedLen(w, i - 1) + Len(RenderedChar(w, i))

\* The parts of the returned string that render the adjective and the noun:
\* what precedes and what follows the joining space.
AdjectiveText ==
  SubSeq(text[1], 1, RenderedLen(pair[1].adjective, Len(pair[1].adjective)))

NounText ==
  SubSeq(text[1],
         RenderedLen(pair[1].adjective, Len(pair[1].adjective)) + 2,
         Len(text[1]))

\* Case conversion maps each character of w to one character.
OneToOne(w) == \A i \in 1..Len(w) : Len(RenderedChar(w, i)) = 1

\* No character of the rendering is a hyphen or an underscore.
NoHyphenOrUnderscore(rendered) ==
  \A i \in 1..Len(rendered) : rendered[i] # HYPHEN /\ rendered[i] # UNDERSCORE

\* Every delimiter of w stands as a space at its own position in the
\* rendering.
DelimitersInPlace(w, rendered) ==
  \A i \in 1..Len(w) :
    IsDelimiter(w[i]) => (i <= Len(rendered) /\ rendered[i] = SPACE)

\* Every delimiter of w stands as a space in the rendering, right after what
\* the characters before it are rendered as.
DelimitersShifted(w, rendered) ==
  \A i \in 1..Len(w) :
    IsDelimiter(w[i]) =>
      /\ RenderedLen(w, i) <= Len(rendered)
      /\ RenderedLen(w, i) = RenderedLen(w, i - 1) + 1
      /\ rendered[RenderedLen(w, i)] = SPACE

\* "space-time", "Space Time"
SpaceTime == <<115, 112, 97, 99, 101, 45, 116, 105, 109, 101>>

SpaceTimeTitle == <<83, 112, 97, 99, 101, 32, 84, 105, 109, 101>>

\* C11 as stated: the rendering of a word holds no hyphen and no underscore,
\* every hyphen, underscore or space of the word is one space at the same
\* position of the rendering, "space-time" renders as "Space Time", and the
\* rendering is as long as the word whenever case conversion maps each
\* character to one character.
C11_DelimitersSamePosition ==
  (pair # None /\ text # None) =>
    /\ NoHyphenOrUnderscore(text[1])
    /\ DelimitersInPlace(pair[1].adjective, AdjectiveText)
    /\ DelimitersInPlace(pair[1].noun, NounText)
    /\ pair[1].noun = SpaceTime => NounText = SpaceTimeTitle
    /\ OneToOne(pair[1].adjective) => Len(AdjectiveText) = Len(pair[1].adjective)
    /\ OneToOne(pair[1].noun) => Len(NounText) = Len(pair[1].noun)

\* C11, amended: the rendering of a word holds no hyphen and no underscore;
\* every hyphen, underscore or space of the word is exactly one space of the
\* rendering, standing right after what the characters before it are rendered
\* as, which is its own position whenever each of those characters converts to
\* one character; "space-time" renders as "Space Time"; and the rendering is
\* as long as the word whenever case conversion maps each character to one
\* character.
C11_DelimitersBecomeSpaces ==
  (pair # None /\ text # None) =>
    /\ NoHyphenOrUnderscore(text[1])
    /\ Len(text[1]) = RenderedLen(pair[1].adjective, Len(pair[1].adjective)) + 1
                        + RenderedLen(pair[1].noun, Len(pair[1].noun))
    /\ DelimitersShifted(pair[1].adjective, AdjectiveText)
    /\ DelimitersShifted(pair[1].noun, NounText)
    /\ \A i \in 1..Len(pair[1].adjective) :
         (IsDelimiter(pair[1].adjective[i])
            /\ OneToOne(SubSeq(pair[1].adjective, 1, i)))
         => AdjectiveText[i] = SPACE
    /\ \A i \in 1..Len(pair[1].noun) :
         (IsDelimiter(pair[1].noun[i]) /\ OneToOne(SubSeq(pair[1].noun, 1, i)))
         => NounText[i] = SPACE
    /\ pair[1].noun = SpaceTime => NounText = SpaceTimeTitle
    /\ OneToOne(pair[1].adjective) => Len(AdjectiveText) = Len(pair[1].adjective)
    /\ OneToOne(pair[1].noun) => Len(NounText) = Len(pair[1].noun)

\* An adjective whose first character converts to two characters before a
\* hyphen, and the noun "space-time", have been formatted.
C11_Witness ==
  /\ pair = Some([adjective |-> <<223, HYPHEN>>, noun |-> SpaceTime])
  /\ text = Some(<<83, 83, SPACE, SPACE>> \o SpaceTimeTitle)

====
